---- MODULE Spec2Model ----
(***************************************************************************)
(* A model of the compartment-tree fitting core of NEAT                    *)
(* (neat/trees/compartmenttree.py): the nodes of a CompartmentTree, the    *)
(* assembly of the conductance and system matrices, the fit entry points   *)
(* and the fit accumulator `fit_data` with its three actions.              *)
(*                                                                         *)
(* Real numbers are exact rationals <<n, d>> (d > 0, lowest terms), so a   *)
(* least-squares solution is the exact minimiser.  Frequencies are real.   *)
(* Iteration over the tree visits the nodes in the order of node.index.    *)
(* A 2-d array of the tree is m[i][j] with i, j in 0 .. N-1; a feature     *)
(* matrix is the sequence of its rows and a target vector a sequence.      *)
(***************************************************************************)
EXTENDS Integers, Sequences, FiniteSets, TLC

VARIABLES
    nodes,            \* index -> the CompartmentNode with that index
    channel_storage,  \* CompartmentTree.channel_storage: names of the channels created
    fit_data,         \* CompartmentTree.fit_data
    phys_tree,        \* a PhysTree's treetype, _computational_root and ions (None otherwise)
    op,               \* the operation that ran last
    call,             \* the arguments it ran with
    res,              \* how it ended: "ok", "warning" or the exception raised
    ret               \* what it returned (None when nothing)

vars == <<nodes, channel_storage, fit_data, phys_tree, op, call, res, ret>>

-----------------------------------------------------------------------------
(* Bounds of the model *)

\* the largest tree of the matrix specification has MaxNodes nodes
MaxNodes == 3
\* the largest tree of the fit specifications has MaxFitNodes nodes
MaxFitNodes == 2
\* the accumulator is filled up to MaxStored triples
MaxStored == 2
\* compartments of the tree that accumulates fits
MaxAccNodes == 1
\* the largest tree whose impedance matrix is computed with the terms of the
\* ion pools: its determinant stays within the integers of the model checker
MaxConcNodes == 2

\* None, where a number, a string or nothing is expected
None == "None"
\* None, where a list of names is expected
NoneList == <<"None">>
\* None, where the state variables of a channel are expected
NoneStateVars == <<>>

-----------------------------------------------------------------------------
(* Exact arithmetic standing for numpy's floats *)

Abs(x) == IF x < 0 THEN -x ELSE x

RECURSIVE GCD(_, _)
GCD(a, b) == IF b = 0 THEN a ELSE GCD(b, a % b)

Reduce(n, d, g) == <<n \div g, d \div g>>

Rat(n, d) == IF d < 0 THEN Reduce(-n, -d, GCD(Abs(n), Abs(d)))
             ELSE Reduce(n, d, GCD(Abs(n), Abs(d)))

R(n) == <<n, 1>>
Zero == <<0, 1>>
One == <<1, 1>>

\* the sum, over the least common denominator
RAddOver(x, y, g) == Rat(x[1] * (y[2] \div g) + y[1] * (x[2] \div g), x[2] * (y[2] \div g))
RAdd(x, y) == RAddOver(x, y, GCD(x[2], y[2]))
RNeg(x) == <<-x[1], x[2]>>
RSub(x, y) == RAdd(x, RNeg(y))
\* the product, the common factors g1 of x[1], y[2] and g2 of y[1], x[2] taken out
RMulOver(x, y, g1, g2) ==
    Rat((x[1] \div g1) * (y[1] \div g2), (x[2] \div g2) * (y[2] \div g1))
RMul(x, y) == RMulOver(x, y, GCD(Abs(x[1]), y[2]), GCD(Abs(y[1]), x[2]))
RInv(y) == IF y[1] < 0 THEN <<-y[2], -y[1]>> ELSE <<y[2], y[1]>>
RDiv(x, y) == RMul(x, RInv(y))
RLeq(x, y) == x[1] * y[2] <= y[1] * x[2]
RLt(x, y) == x[1] * y[2] < y[1] * x[2]

RECURSIVE RSum(_)
RSum(s) == IF s = <<>> THEN Zero ELSE RAdd(Head(s), RSum(Tail(s)))

Range(s) == {s[i] : i \in DOMAIN s}

Put(f, k, v) == [x \in (DOMAIN f) \cup {k} |-> IF x = k THEN v ELSE f[x]]

-----------------------------------------------------------------------------
(* The tree *)

\* parent_node of the root (None in the code)
NoParent == -1

NumNodes(ns) == Cardinality(DOMAIN ns)
Indices(ns) == 0 .. (NumNodes(ns) - 1)
IsRoot(node) == node.parent_node = NoParent

\* _toVecGM and _toVecGMC look every name up in every node: some node of the
\* tree has no current of one of the names and node.currents[c_name] raises
\* KeyError
lacksCurrent(ns, channel_names) ==
    \E i \in DOMAIN ns : \E c \in Range(channel_names) : c \notin DOMAIN ns[i].currents

\* CompartmentNode.__init__
CompartmentNode(index, loc_ind, parent, ca, g_c, g_l, e_eq) ==
    [index |-> index, loc_ind |-> loc_ind, parent_node |-> parent,
     ca |-> ca, g_c |-> g_c, e_eq |-> e_eq,
     currents |-> [c \in {"L"} |-> <<g_l, e_eq>>],
     concmechs |-> [i \in {} |-> Zero],
     expansion_points |-> [c \in {} |-> NoneStateVars]]

-----------------------------------------------------------------------------
(* Ion channels (neat/channels/ionchannels.py).  The kinetics of a channel  *)
(* type are those of its class in channelcollection: one state variable x,  *)
(* open probability p = x.                                                  *)

\* channelcollection.E_REV_DICT
E_REV_DICT(channel_name) == IF channel_name = "CaT" THEN 50 ELSE -85

\* IonChannel.ion: the ion whose current the channel carries
ChannelIon(channel_name) == IF channel_name = "CaT" THEN "ca" ELSE "k"

\* IonChannel.concentrations: the ions whose concentration the channel reads
ChannelConcentrations(channel_name) == IF channel_name = "SK" THEN {"ca"} ELSE {}

\* IonChannel.f_varinf: the asymptotic activation at potential v
f_varinf(channel_name, v) ==
    IF channel_name = "CaT"
    THEN (IF v < -70 THEN <<1, 4>> ELSE <<1, 2>>)
    ELSE (IF v < -70 THEN <<1, 2>> ELSE <<3, 4>>)

\* IonChannel.f_p_open
f_p_open(channel_name, v, x) == x

\* IonChannel.dp_dx, df_dv, df_dx (per ms)
dp_dx(channel_name, v, x) == One
df_dv(channel_name, v, x) == IF channel_name = "CaT" THEN <<1, 50>> ELSE <<1, 100>>
df_dx(channel_name, v, x) == <<-1, 1>>
\* IonChannel.df_dc (per ms), for an ion the channel reads
df_dc(channel_name, v, x, ion) == <<1, 10>>

\* the state variables a channel is linearised around: the given ones, or the
\* asymptotic ones at v when statevars is None
StateVar(channel_name, v, statevars) ==
    IF statevars = NoneStateVars THEN f_varinf(channel_name, v) ELSE statevars

\* IonChannel.computePOpen
computePOpen(channel_name, v, statevars) ==
    f_p_open(channel_name, v, StateVar(channel_name, v, statevars))

\* the quotient both computeLinear and computeLinearConc end with, the
\* derivatives converted to 1/s
LinearResponse(dp_dx_, df_dy_, df_dx_, freq) ==
    RDiv(RMul(dp_dx_, RMul(df_dy_, R(1000))), RSub(R(freq), RMul(df_dx_, R(1000))))

\* IonChannel.computeLinear, at one frequency with state variables x
computeLinearAt(channel_name, v, freq, x) ==
    LinearResponse(dp_dx(channel_name, v, x), df_dv(channel_name, v, x),
                   df_dx(channel_name, v, x), freq)

\* IonChannel.computeLinear, at one frequency
computeLinear(channel_name, v, freq, statevars) ==
    computeLinearAt(channel_name, v, freq, StateVar(channel_name, v, statevars))

\* IonChannel.computeLinSum, at one frequency
computeLinSum(channel_name, v, freq, e_rev, statevars) ==
    RSub(RMul(R(e_rev - v), computeLinear(channel_name, v, freq, statevars)),
         computePOpen(channel_name, v, statevars))

\* IonChannel.computeLinearConc, at one frequency with state variables x
computeLinearConcAt(channel_name, v, freq, ion, x) ==
    LinearResponse(dp_dx(channel_name, v, x), df_dc(channel_name, v, x, ion),
                   df_dx(channel_name, v, x), freq)

\* IonChannel.computeLinearConc, at one frequency
computeLinearConc(channel_name, v, freq, ion, statevars) ==
    computeLinearConcAt(channel_name, v, freq, ion, StateVar(channel_name, v, statevars))

\* IonChannel.computeLinConc, at one frequency
computeLinConc(channel_name, v, freq, e_rev, ion, statevars) ==
    RMul(R(e_rev - v), computeLinearConc(channel_name, v, freq, ion, statevars))

\* ExpConcMech.computeLin, at one frequency: the relaxation of the ion pool
\* with time constant tau (ms)
ExpConcMechComputeLin(concmech, freq) ==
    RDiv(One, RAdd(R(freq), RDiv(R(1000), concmech.tau)))

-----------------------------------------------------------------------------
(* CompartmentNode *)

\* the requested channels a node does not have yet
MissingChannels(node, channel_names) == (channel_names \ {"L"}) \ DOMAIN node.currents

\* CompartmentNode.calcMembraneConductanceTerms: the channels it adds to the node
\* (a requested channel the node does not have yet is added with conductance 0)
NodeWithChannels(node, cs, channel_names) ==
    [node |-> [node EXCEPT
                 !.currents = [c \in (DOMAIN @) \cup MissingChannels(node, channel_names) |->
                                 IF c \in DOMAIN @ THEN @[c] ELSE <<Zero, E_REV_DICT(c)>>],
                 !.expansion_points =
                               [c \in (DOMAIN @) \cup MissingChannels(node, channel_names) |->
                                 IF c \in MissingChannels(node, channel_names)
                                 THEN NoneStateVars ELSE @[c]]],
     channel_storage |-> cs \cup MissingChannels(node, channel_names)]

\* CompartmentNode.calcMembraneConductanceTerms: the dict it returns, per frequency,
\* for a node that has the channels
calcMembraneConductanceTerms(node, freqs, channel_names) ==
    [c \in channel_names |->
        IF c = "L"
        THEN [f \in DOMAIN freqs |-> One]
        ELSE [f \in DOMAIN freqs |->
                RNeg(computeLinSum(c, node.e_eq, freqs[f], node.currents[c][2],
                                   node.expansion_points[c]))]]

RECURSIVE SumOver(_, _)
\* sum([F[x] for x in S])
SumOver(S, F) ==
    IF S = {} THEN Zero
    ELSE RAdd(F[CHOOSE y \in S : TRUE], SumOver(S \ {CHOOSE y \in S : TRUE}, F))

\* CompartmentNode.getGTot with its default arguments (the g_tot property)
getGTot(node) ==
    RAdd(node.currents["L"][1],
         SumOver((DOMAIN node.currents) \ {"L"},
                 [c \in (DOMAIN node.currents) \ {"L"} |->
                    RMul(node.currents[c][1],
                         computePOpen(c, node.e_eq, node.expansion_points[c]))]))

\* the channels calcMembraneConcentrationTerms looks at
ConcChannels(node, channel_names) == ((DOMAIN node.currents) \cap channel_names) \ {"L"}

\* CompartmentNode.calcMembraneConcentrationTerms: conc_write_channels
concWriteChannels(node, ion, channel_names, freq) ==
    SumOver({c \in ConcChannels(node, channel_names) : ChannelIon(c) = ion},
            [c \in ConcChannels(node, channel_names) |->
                RMul(node.currents[c][1],
                     computeLinSum(c, node.e_eq, freq, node.currents[c][2],
                                   node.expansion_points[c]))])

\* CompartmentNode.calcMembraneConcentrationTerms: conc_read_channels
concReadChannels(node, ion, channel_names, freq) ==
    RNeg(SumOver({c \in ConcChannels(node, channel_names) : ion \in ChannelConcentrations(c)},
            [c \in ConcChannels(node, channel_names) |->
                RMul(node.currents[c][1],
                     computeLinConc(c, node.e_eq, freq, node.currents[c][2], ion,
                                    node.expansion_points[c]))]))

\* CompartmentNode.calcMembraneConcentrationTerms, at one frequency, for a node
\* with a concentration mechanism for the ion
calcMembraneConcentrationTerms(node, ion, channel_names, freq) ==
    RMul(RMul(concWriteChannels(node, ion, channel_names, freq),
              concReadChannels(node, ion, channel_names, freq)),
         ExpConcMechComputeLin(node.concmechs[ion], freq))

\* CompartmentNode.setExpansionPoint, statevar being None or state variables
setExpansionPoint(node, channel_name, statevar) ==
    [node EXCEPT !.expansion_points = Put(@, channel_name, statevar)]

-----------------------------------------------------------------------------
(* CompartmentTree: potentials, expansion points, permutations *)

\* CompartmentTree.setEEq with a float
setEEq(ns, e_eq) == [i \in DOMAIN ns |-> [ns[i] EXCEPT !.e_eq = e_eq]]

\* CompartmentTree.setExpansionPoints for one channel whose expansion point is
\* None or one set of state variables used throughout the tree
setExpansionPoints(ns, channel_name, expansion_point) ==
    [i \in DOMAIN ns |-> setExpansionPoint(ns[i], channel_name, expansion_point)]

RECURSIVE setExpansionPointsAll(_, _, _)
\* CompartmentTree.setExpansionPoints for the channels of a list, sv_s[k] the
\* expansion point of channel_names[k]
setExpansionPointsAll(ns, channel_names, sv_s) ==
    IF channel_names = <<>> THEN ns
    ELSE setExpansionPointsAll(setExpansionPoints(ns, Head(channel_names), Head(sv_s)),
                               Tail(channel_names), Tail(sv_s))

\* CompartmentTree.removeExpansionPoints: 'asymptotic' is stored as None
removeExpansionPoints(ns) ==
    [i \in DOMAIN ns |->
        [ns[i] EXCEPT !.expansion_points =
            [c \in (DOMAIN @) \cup (DOMAIN ns[i].currents) |->
                IF c \in DOMAIN ns[i].currents THEN NoneStateVars ELSE @[c]]]]

ZeroMat(N) == [i \in 0 .. (N - 1) |-> [j \in 0 .. (N - 1) |-> Zero]]
MAdd(m, i, j, x) == [m EXCEPT ![i][j] = RAdd(@, x)]
MSub(m, i, j, x) == [m EXCEPT ![i][j] = RSub(@, x)]

\* CompartmentTree._permuteToTreeInds
permuteToTreeInds(ns) == [i \in Indices(ns) |-> ns[i].loc_ind]

\* mat[index_arr,:][:,index_arr]
Permuted(mat, index_arr) ==
    [i \in DOMAIN index_arr |-> [j \in DOMAIN index_arr |-> mat[index_arr[i]][index_arr[j]]]]

\* CompartmentTree._permuteToTree, mat.ndim == 2
permuteToTree(ns, mat) == Permuted(mat, permuteToTreeInds(ns))

\* np.argsort of the loc_ind values listed in iteration order (ties by position)
ArgSort(loc_inds) ==
    [i \in DOMAIN loc_inds |->
        CHOOSE a \in DOMAIN loc_inds :
            Cardinality({b \in DOMAIN loc_inds :
                            \/ loc_inds[b] < loc_inds[a]
                            \/ (loc_inds[b] = loc_inds[a] /\ b < a)}) = i]

\* a faulty argsort that leaves the order as it is:
\* C11_PermutationsAreInverses tells it from permuteToLocsInds
permuteToLocsIndsIdentity(ns) == [i \in Indices(ns) |-> i]

\* CompartmentTree._permuteToLocsInds
permuteToLocsInds(ns) == ArgSort([i \in Indices(ns) |-> ns[i].loc_ind])

\* CompartmentTree._permuteToLocs, mat.ndim == 2
permuteToLocs(ns, mat) == Permuted(mat, permuteToLocsInds(ns))

\* the side of an array of ndim axes: its length, the array being a vector
\* v[i], a matrix m[i][j] or a stack m[o][i][j] over the frequencies
Side(mat, ndim) ==
    IF ndim = 3 THEN Cardinality(DOMAIN mat[1]) ELSE Cardinality(DOMAIN mat)

\* mat[index_arr], mat[index_arr,:][:,index_arr], mat[:,index_arr,:][:,:,index_arr]
\* for ndim = 1, 2, 3: an index beyond the side raises IndexError, and an
\* array of any other ndim falls through the branches and None is returned
PermutedNd(mat, index_arr, ndim) ==
    IF ndim \notin {1, 2, 3} THEN [res |-> "ok", ret |-> None]
    ELSE IF \E i \in DOMAIN index_arr : index_arr[i] >= Side(mat, ndim)
    THEN [res |-> "IndexError", ret |-> None]
    ELSE [res |-> "ok",
          ret |-> IF ndim = 1 THEN [i \in DOMAIN index_arr |-> mat[index_arr[i]]]
                  ELSE IF ndim = 2 THEN Permuted(mat, index_arr)
                  ELSE [o \in DOMAIN mat |-> Permuted(mat[o], index_arr)]]

\* CompartmentTree._permuteToTree
permuteToTreeNd(ns, mat, ndim) == PermutedNd(mat, permuteToTreeInds(ns), ndim)

\* CompartmentTree._permuteToLocs
permuteToLocsNd(ns, mat, ndim) == PermutedNd(mat, permuteToLocsInds(ns), ndim)
-----------------------------------------------------------------------------
(* CompartmentTree: the conductance matrix and the system matrix *)

\* a faulty coupling that updates the entry (node, parent) only:
\* C10_ConductanceMatrixLaplacian tells it from calcConductanceMatrixCoupling
calcConductanceMatrixCouplingOneSided(ns, node, g_mat) ==
    IF ~IsRoot(node)
    THEN MSub(MAdd(g_mat, ns[node.parent_node].index, ns[node.parent_node].index,
                   node.g_c),
              node.index, ns[node.parent_node].index, node.g_c)
    ELSE g_mat

\* CompartmentTree.calcConductanceMatrix: the coupling entries a node adds
calcConductanceMatrixCoupling(ns, node, g_mat) ==
    IF ~IsRoot(node)
    THEN MSub(MSub(MAdd(g_mat, ns[node.parent_node].index, ns[node.parent_node].index,
                        node.g_c),
                   node.index, ns[node.parent_node].index, node.g_c),
              ns[node.parent_node].index, node.index, node.g_c)
    ELSE g_mat

\* CompartmentTree.calcConductanceMatrix: the body of its loop for one node
calcConductanceMatrixNode(ns, node, g_mat) ==
    calcConductanceMatrixCoupling(ns, node,
        MAdd(g_mat, node.index, node.index, RAdd(getGTot(node), node.g_c)))

RECURSIVE calcConductanceMatrixLoop(_, _, _)
calcConductanceMatrixLoop(ns, k, g_mat) ==
    IF k = NumNodes(ns) THEN g_mat
    ELSE calcConductanceMatrixLoop(ns, k + 1, calcConductanceMatrixNode(ns, ns[k], g_mat))

\* CompartmentTree.calcConductanceMatrix
calcConductanceMatrix(ns, indexing) ==
    IF indexing = "locs"
    THEN [res |-> "ok",
          ret |-> permuteToLocs(ns, calcConductanceMatrixLoop(ns, 0, ZeroMat(NumNodes(ns))))]
    ELSE IF indexing = "tree"
    THEN [res |-> "ok", ret |-> calcConductanceMatrixLoop(ns, 0, ZeroMat(NumNodes(ns)))]
    ELSE [res |-> "ValueError", ret |-> None]

\* CompartmentTree.calcSystemMatrix: the capacitance contribution of a node
calcSystemMatrixCa(node, freq, with_ca, m) ==
    IF with_ca THEN MAdd(m, node.index, node.index, RMul(R(freq), node.ca)) ELSE m

\* CompartmentTree.calcSystemMatrix: the coupling conductances of a node
calcSystemMatrixCoupling(ns, node, m) ==
    IF ~IsRoot(node)
    THEN MSub(MSub(MAdd(MAdd(m, node.index, node.index, node.g_c),
                        ns[node.parent_node].index, ns[node.parent_node].index, node.g_c),
                   node.index, ns[node.parent_node].index, node.g_c),
              ns[node.parent_node].index, node.index, node.g_c)
    ELSE MAdd(m, node.index, node.index, node.g_c)

\* CompartmentTree.calcSystemMatrix: the ion channel contributions of a node
calcSystemMatrixChannels(node, f, channel_names, g_terms, m) ==
    MAdd(m, node.index, node.index,
         SumOver(channel_names, [c \in channel_names |->
                                    RMul(node.currents[c][1], g_terms[c][f])]))

\* CompartmentTree.calcSystemMatrix: the concentration contributions of a node
calcSystemMatrixConc(node, freq, channel_names, use_conc, m) ==
    IF use_conc
    THEN MAdd(m, node.index, node.index,
              SumOver(DOMAIN node.concmechs,
                      [ion \in DOMAIN node.concmechs |->
                          RMul(node.concmechs[ion].gamma,
                               calcMembraneConcentrationTerms(node, ion, channel_names,
                                                              freq))]))
    ELSE m

\* CompartmentTree.calcSystemMatrix: the body of its loop for one node, which
\* is the node after calcMembraneConductanceTerms has added its channels
calcSystemMatrixNode(ns, node, freqs, channel_names, with_ca, use_conc, s_mat) ==
    [f \in DOMAIN freqs |->
        calcSystemMatrixConc(node, freqs[f], channel_names, use_conc,
            calcSystemMatrixChannels(node, f, channel_names,
                calcMembraneConductanceTerms(node, freqs, channel_names),
                calcSystemMatrixCoupling(ns, node,
                    calcSystemMatrixCa(node, freqs[f], with_ca, s_mat[f]))))]

\* the tree and the channel storage once node k has the channels
WithNodeChannels(ns, cs, k, added) ==
    [nodes |-> [ns EXCEPT ![k] = added.node], channel_storage |-> added.channel_storage]

RECURSIVE calcSystemMatrixLoop(_, _, _, _, _, _, _)
\* one turn of the loop of calcSystemMatrix, for the tree t whose node k has
\* the channels
calcSystemMatrixStep(t, k, freqs, channel_names, with_ca, use_conc, s_mat) ==
    calcSystemMatrixLoop(t, k + 1, freqs, channel_names, with_ca, use_conc,
        calcSystemMatrixNode(t.nodes, t.nodes[k], freqs, channel_names, with_ca,
                             use_conc, s_mat))

\* the loop of calcSystemMatrix from node k on: the matrix, the nodes and the
\* channel storage when it ends (t holds the nodes and the channel storage)
calcSystemMatrixLoop(t, k, freqs, channel_names, with_ca, use_conc, s_mat) ==
    IF k = NumNodes(t.nodes)
    THEN [s_mat |-> s_mat, nodes |-> t.nodes, channel_storage |-> t.channel_storage]
    ELSE calcSystemMatrixStep(
             WithNodeChannels(t.nodes, t.channel_storage, k,
                              NodeWithChannels(t.nodes[k], t.channel_storage, channel_names)),
             k, freqs, channel_names, with_ca, use_conc, s_mat)

\* the channel names calcSystemMatrix works with, as a set
SystemMatrixChannels(cs, channel_names, add_L) ==
    (IF channel_names = NoneList THEN {"L"} \cup cs ELSE Range(channel_names))
        \cup (IF add_L THEN {"L"} ELSE {})

\* a faulty return that hands out the matrix in tree indexing for an indexing
\* it does not know: C12_InvalidIndexingRejected tells it from
\* calcSystemMatrixReturn
calcSystemMatrixReturnLenient(done, freqs, no_freq_dim, indexing) ==
    [res |-> "ok",
     ret |-> IF indexing = "locs"
             THEN (IF no_freq_dim THEN permuteToLocs(done.nodes, done.s_mat[1])
                   ELSE [f \in DOMAIN freqs |-> permuteToLocs(done.nodes, done.s_mat[f])])
             ELSE (IF no_freq_dim THEN done.s_mat[1] ELSE done.s_mat),
     nodes |-> done.nodes, channel_storage |-> done.channel_storage]

\* CompartmentTree.calcSystemMatrix: what it returns once the loop is done
calcSystemMatrixReturn(done, freqs, no_freq_dim, indexing) ==
    [res |-> IF indexing \in {"locs", "tree"} THEN "ok" ELSE "ValueError",
     ret |-> IF indexing = "locs"
             THEN (IF no_freq_dim THEN permuteToLocs(done.nodes, done.s_mat[1])
                   ELSE [f \in DOMAIN freqs |-> permuteToLocs(done.nodes, done.s_mat[f])])
             ELSE IF indexing = "tree"
             THEN (IF no_freq_dim THEN done.s_mat[1] ELSE done.s_mat)
             ELSE None,
     nodes |-> done.nodes, channel_storage |-> done.channel_storage]

\* CompartmentTree.calcSystemMatrix.  freqs is the sequence of frequencies;
\* no_freq_dim says that the caller passed a single float.
calcSystemMatrix(ns, cs, freqs, no_freq_dim, channel_names, with_ca, use_conc, indexing, add_L) ==
    calcSystemMatrixReturn(
        calcSystemMatrixLoop([nodes |-> ns, channel_storage |-> cs], 0, freqs,
                             SystemMatrixChannels(cs, channel_names, add_L),
                             with_ca, use_conc,
                             [f \in DOMAIN freqs |-> ZeroMat(NumNodes(ns))]),
        freqs, no_freq_dim, indexing)

RECURSIVE Det(_, _, _)
\* the determinant of the rows `rows` and columns `cols` (sequences of indices)
\* of the matrix m
Det(m, rows, cols) ==
    IF rows = <<>> THEN One
    ELSE RSum([c \in DOMAIN cols |->
                 RMul(RMul(IF c % 2 = 1 THEN One ELSE <<-1, 1>>, m[Head(rows)][cols[c]]),
                      Det(m, Tail(rows),
                          [x \in 1 .. (Len(cols) - 1) |->
                              IF x < c THEN cols[x] ELSE cols[x + 1]]))])

\* np.linalg.inv raises LinAlgError on a singular matrix
IsSingular(m) ==
    Det(m, [x \in 1 .. Cardinality(DOMAIN m) |-> x - 1],
           [x \in 1 .. Cardinality(DOMAIN m) |-> x - 1]) = Zero

\* the indices 0 .. N-1 without k, in order
Without(N, k) == [x \in 1 .. (N - 1) |-> IF x - 1 < k THEN x - 1 ELSE x]

\* the determinant of a matrix m[i][j], i, j in 0 .. N-1
Determinant(m) ==
    Det(m, [x \in 1 .. Cardinality(DOMAIN m) |-> x - 1],
           [x \in 1 .. Cardinality(DOMAIN m) |-> x - 1])

\* np.linalg.inv of a regular matrix: the cofactors over the determinant
Inverse(m) ==
    [i \in DOMAIN m |-> [j \in DOMAIN m |->
        RDiv(RMul(IF (i + j) % 2 = 0 THEN One ELSE <<-1, 1>>,
                  Det(m, Without(Cardinality(DOMAIN m), j),
                         Without(Cardinality(DOMAIN m), i))),
             Determinant(m))]]

\* CompartmentTree.calcImpedanceMatrix: np.linalg.inv of what calcSystemMatrix
\* returned, a matrix or a stack of matrices
calcImpedanceMatrixInv(s, no_freq_dim) ==
    IF s.res # "ok" THEN s
    ELSE IF (IF no_freq_dim THEN IsSingular(s.ret)
             ELSE \E f \in DOMAIN s.ret : IsSingular(s.ret[f]))
    THEN [s EXCEPT !.res = "LinAlgError", !.ret = None]
    ELSE [s EXCEPT !.ret = IF no_freq_dim THEN Inverse(s.ret)
                           ELSE [f \in DOMAIN s.ret |-> Inverse(s.ret[f])]]

\* a faulty impedance matrix that inverts the system matrix without the
\* capacitances: C18_SystemTimesImpedanceIsIdentity tells it from
\* calcImpedanceMatrix
calcImpedanceMatrixWithoutCa(ns, cs, freqs, no_freq_dim, channel_names, indexing, use_conc) ==
    calcImpedanceMatrixInv(
        calcSystemMatrix(ns, cs, freqs, no_freq_dim, channel_names, FALSE, use_conc,
                         indexing, TRUE),
        no_freq_dim)

\* CompartmentTree.calcImpedanceMatrix
calcImpedanceMatrix(ns, cs, freqs, no_freq_dim, channel_names, indexing, use_conc) ==
    calcImpedanceMatrixInv(
        calcSystemMatrix(ns, cs, freqs, no_freq_dim, channel_names, TRUE, use_conc,
                         indexing, TRUE),
        no_freq_dim)
-----------------------------------------------------------------------------
(* The linear solve and the writing of its result to the tree *)

NumCols(mat) == IF mat = <<>> THEN 0 ELSE Len(mat[1])

\* a feature matrix every row of which has at most one non-zero entry: its
\* columns are mutually orthogonal, the least-squares problem splits by column
Decoupled(mat) ==
    \A r \in DOMAIN mat : Cardinality({l \in DOMAIN mat[r] : mat[r][l] # Zero}) <= 1

\* the inner product of column l of mat with vec
ColDot(mat, vec, l) == RSum([r \in DOMAIN mat |-> RMul(mat[r][l], vec[r])])
\* the squared norm of column l of mat
ColSq(mat, l) == RSum([r \in DOMAIN mat |-> RMul(mat[r][l], mat[r][l])])

\* one component of the minimiser of |a x - b| over x >= 0, a.b and a.a given
nnlsComponent(dot, sq) == IF sq # Zero /\ RLt(Zero, dot) THEN RDiv(dot, sq) ELSE Zero

\* scipy.optimize.nnls(mat_feature, vec_target)[0] for a decoupled matrix: the
\* minimiser of |mat x - vec| over x >= 0 (0 for a column of zeros)
nnls(mat_feature, vec_target) ==
    [l \in 1 .. NumCols(mat_feature) |->
        nnlsComponent(ColDot(mat_feature, vec_target, l), ColSq(mat_feature, l))]

RECURSIVE toTreeGMLoop(_, _, _, _)
\* CompartmentTree._toTreeGM from its counter kk on; g_vec[kk] is read before
\* node.currents[channel_name] is looked up
toTreeGMLoop(ns, g_vec, channel_names, kk) ==
    IF kk = NumNodes(ns) * Len(channel_names) THEN [nodes |-> ns, res |-> "ok"]
    ELSE IF kk >= Len(g_vec) THEN [nodes |-> ns, res |-> "IndexError"]
    ELSE IF channel_names[(kk % Len(channel_names)) + 1]
                \notin DOMAIN ns[kk \div Len(channel_names)].currents
    THEN [nodes |-> ns, res |-> "KeyError"]
    ELSE toTreeGMLoop(
            [ns EXCEPT ![kk \div Len(channel_names)].currents[
                            channel_names[(kk % Len(channel_names)) + 1]][1] = g_vec[kk + 1]],
            g_vec, channel_names, kk + 1)

\* CompartmentTree._toTreeGM
toTreeGM(ns, g_vec, channel_names) == toTreeGMLoop(ns, g_vec, channel_names, 0)

RECURSIVE toTreeConcLoop(_, _, _, _)
\* CompartmentTree._toTreeConc from node ii on
toTreeConcLoop(ns, c_vec, ion, ii) ==
    IF ii = NumNodes(ns) THEN [nodes |-> ns, res |-> "ok"]
    ELSE IF ii >= Len(c_vec) THEN [nodes |-> ns, res |-> "IndexError"]
    ELSE IF ion \notin DOMAIN ns[ii].concmechs THEN [nodes |-> ns, res |-> "KeyError"]
    ELSE toTreeConcLoop([ns EXCEPT ![ii].concmechs[ion].gamma = c_vec[ii + 1]],
                        c_vec, ion, ii + 1)

\* CompartmentTree._toTreeConc
toTreeConc(ns, c_vec, ion) == toTreeConcLoop(ns, c_vec, ion, 0)

RECURSIVE toTreeCLoop(_, _, _)
\* CompartmentTree._toTreeC from node ii on
toTreeCLoop(ns, c_vec, ii) ==
    IF ii = NumNodes(ns) THEN [nodes |-> ns, res |-> "ok"]
    ELSE IF ii >= Len(c_vec) THEN [nodes |-> ns, res |-> "IndexError"]
    ELSE toTreeCLoop([ns EXCEPT ![ii].ca = c_vec[ii + 1]], c_vec, ii + 1)

\* CompartmentTree._toTreeC
toTreeC(ns, c_vec) == toTreeCLoop(ns, c_vec, 0)

-----------------------------------------------------------------------------
(* The fit accumulator.  An operation on the tree t = [nodes, channel_storage, *)
(* fit_data] gives the tree afterwards, how it ended (res) and what it        *)
(* returned (ret).                                                            *)

\* CompartmentTree.resetFitData: the value it gives fit_data
IdleFitData ==
    [mats_feature |-> <<>>, vecs_target |-> <<>>, weights_fit |-> <<>>,
     channel_names |-> <<>>, ion |-> "", c |-> FALSE]

\* a faulty reset that empties the arrays and keeps the family:
\* C4_IdleAfterRunFitOrReset tells it from resetFitData
resetFitDataKeepsFamily(fd) ==
    [fd EXCEPT !.mats_feature = <<>>, !.vecs_target = <<>>, !.weights_fit = <<>>]

\* CompartmentTree.resetFitData
resetFitData(fd) == IdleFitData

\* the keyword arguments of a call: a name that is not passed is None
Kwargs(channel_names, ion) == [channel_names |-> channel_names, ion |-> ion]
NoKwargs == Kwargs(NoneList, None)

\* an operation that ended with res and returned ret, the tree being t
Ended(t, res_, ret_) ==
    [nodes |-> t.nodes, channel_storage |-> t.channel_storage, fit_data |-> t.fit_data,
     res |-> res_, ret |-> ret_]

\* the tree t with the nodes written by a _toTree helper, ending as it ended
Written(t, w) ==
    [nodes |-> w.nodes, channel_storage |-> t.channel_storage, fit_data |-> t.fit_data,
     res |-> w.res, ret |-> None]

\* _fitResAction, action 'fit': the writing of the solution vec_res
fitWrite(t, vec_res, capacitance, kwargs) ==
    IF kwargs.channel_names # NoneList
    THEN Written(t, toTreeGM(t.nodes, vec_res, kwargs.channel_names))
    ELSE IF kwargs.ion # None
    THEN Written(t, toTreeConc(t.nodes, vec_res, kwargs.ion))
    ELSE IF capacitance
    THEN Written(t, toTreeC(t.nodes, vec_res))
    ELSE Ended(t, "IOError", None)

RECURSIVE Concatenate(_)
\* np.concatenate of a list of arrays along their first axis
Concatenate(arrays) ==
    IF arrays = <<>> THEN <<>> ELSE Head(arrays) \o Concatenate(Tail(arrays))

\* a faulty fit that solves the stored arrays together with those of the call:
\* C7_FitUsesOnlyThisCall tells it from fitNow
fitNowWithStored(t, mat_feature, vec_target, capacitance, kwargs) ==
    fitWrite(t, nnls(Concatenate(Append(t.fit_data.mats_feature, mat_feature)),
                     Concatenate(Append(t.fit_data.vecs_target, vec_target))),
             capacitance, kwargs)

\* _fitResAction, action 'fit'
fitNow(t, mat_feature, vec_target, capacitance, kwargs) ==
    fitWrite(t, nnls(mat_feature, vec_target), capacitance, kwargs)

\* a faulty store that records the family it is given without any check:
\* C1_MismatchedStoreRejected tells it from storeFamily
storeFamilyUnchecked(fd, capacitance, kwargs) ==
    [fit_data |-> IF kwargs.channel_names # NoneList
                  THEN [fd EXCEPT !.channel_names = kwargs.channel_names]
                  ELSE IF kwargs.ion # None THEN [fd EXCEPT !.ion = kwargs.ion]
                  ELSE IF capacitance THEN [fd EXCEPT !.c = TRUE]
                  ELSE fd,
     res |-> "ok"]

\* _fitResAction, action 'store': what the family checks do to fit_data, and
\* the exception they end with if any.  The message of the last IOError is
\* built from kwargs[ion], the name ion being undefined.
storeFamily(fd, capacitance, kwargs) ==
    IF kwargs.channel_names # NoneList
    THEN (IF fd.ion # "" THEN [fit_data |-> fd, res |-> "IOError"]
          ELSE IF Len(fd.channel_names) = 0
          THEN [fit_data |-> [fd EXCEPT !.channel_names = kwargs.channel_names],
                res |-> "ok"]
          ELSE IF fd.channel_names = kwargs.channel_names
          THEN [fit_data |-> fd, res |-> "ok"]
          ELSE [fit_data |-> fd, res |-> "IOError"])
    ELSE IF kwargs.ion # None
    THEN (IF Len(fd.channel_names) # 0 THEN [fit_data |-> fd, res |-> "IOError"]
          ELSE IF fd.ion = ""
          THEN [fit_data |-> [fd EXCEPT !.ion = kwargs.ion], res |-> "ok"]
          ELSE IF fd.ion = kwargs.ion
          THEN [fit_data |-> fd, res |-> "ok"]
          ELSE [fit_data |-> fd, res |-> "NameError"])
    ELSE IF capacitance
    THEN [fit_data |-> [fd EXCEPT !.c = TRUE], res |-> "ok"]
    ELSE [fit_data |-> fd, res |-> "ok"]

\* a faulty store that appends the triple whatever the family checks said
storeAppendRegardless(t, checked, mat_feature, vec_target, weight) ==
    [nodes |-> t.nodes, channel_storage |-> t.channel_storage,
     fit_data |-> [checked.fit_data EXCEPT
                     !.mats_feature = Append(@, mat_feature),
                     !.vecs_target = Append(@, vec_target),
                     !.weights_fit = Append(@, weight)],
     res |-> checked.res, ret |-> None]

\* _fitResAction, action 'store': the triple appended after the family checks
storeAppend(t, checked, mat_feature, vec_target, weight) ==
    IF checked.res = "ok"
    THEN [nodes |-> t.nodes, channel_storage |-> t.channel_storage,
          fit_data |-> [checked.fit_data EXCEPT
                          !.mats_feature = Append(@, mat_feature),
                          !.vecs_target = Append(@, vec_target),
                          !.weights_fit = Append(@, weight)],
          res |-> "ok", ret |-> None]
    ELSE Ended(t, checked.res, None)

\* _fitResAction, action 'store'
storeTriple(t, mat_feature, vec_target, weight, capacitance, kwargs) ==
    storeAppend(t, storeFamily(t.fit_data, capacitance, kwargs),
                mat_feature, vec_target, weight)

\* CompartmentTree._fitResAction
fitResAction(t, action, mat_feature, vec_target, weight, capacitance, kwargs) ==
    IF action = "fit" THEN fitNow(t, mat_feature, vec_target, capacitance, kwargs)
    ELSE IF action = "return" THEN Ended(t, "ok", <<mat_feature, vec_target>>)
    ELSE IF action = "store"
    THEN storeTriple(t, mat_feature, vec_target, weight, capacitance, kwargs)
    ELSE Ended(t, "IOError", None)

\* m_f *= w_f / nn
ScaledMat(m_f, w_f, nn) ==
    [r \in DOMAIN m_f |-> [l \in DOMAIN m_f[r] |-> RMul(m_f[r][l], RDiv(w_f, R(nn)))]]
\* v_t *= w_f / nn
ScaledVec(v_t, w_f, nn) == [r \in DOMAIN v_t |-> RMul(v_t[r], RDiv(w_f, R(nn)))]

\* runFit: the weights applied, in place, to the stored arrays
applyWeights(fd) ==
    [fd EXCEPT
        !.mats_feature = [k \in DOMAIN @ |->
                            ScaledMat(@[k], fd.weights_fit[k], Len(fd.vecs_target[k]))],
        !.vecs_target = [k \in DOMAIN @ |->
                            ScaledVec(@[k], fd.weights_fit[k], Len(fd.vecs_target[k]))]]

\* np.concatenate accepts 2-d arrays that agree in their number of columns
SameCols(mats) == \A a, b \in DOMAIN mats : NumCols(mats[a]) = NumCols(mats[b])

\* runFit: the family's solve of the concatenated arrays (none when fit_data
\* names no family)
runFitSolve(t, mat_feature, vec_target) ==
    IF Len(t.fit_data.channel_names) > 0
    THEN fitResAction(t, "fit", mat_feature, vec_target, One, FALSE,
                      Kwargs(t.fit_data.channel_names, None))
    ELSE IF t.fit_data.ion # ""
    THEN fitResAction(t, "fit", mat_feature, vec_target, One, FALSE,
                      Kwargs(NoneList, t.fit_data.ion))
    ELSE IF t.fit_data.c
    THEN fitResAction(t, "fit", mat_feature, vec_target, One, TRUE, NoKwargs)
    ELSE Ended(t, "ok", None)

\* runFit: the reset that follows a solve that returned
runFitReset(solved) ==
    IF solved.res = "ok" THEN [solved EXCEPT !.fit_data = resetFitData(@)] ELSE solved

\* runFit with stored triples, t holding the weighted arrays
runFitStored(t) ==
    IF ~SameCols(t.fit_data.mats_feature) THEN Ended(t, "ValueError", None)
    ELSE runFitReset(runFitSolve(t, Concatenate(t.fit_data.mats_feature),
                                 Concatenate(t.fit_data.vecs_target)))

\* a faulty runFit that goes on to the solve and the reset when nothing is
\* stored: C5_RunFitEmptyIsNoOp tells it from runFit
runFitEmptySolves(t) == runFitStored([t EXCEPT !.fit_data = applyWeights(@)])

\* CompartmentTree.runFit
runFit(t) ==
    IF Len(t.fit_data.mats_feature) > 0
    THEN runFitStored([t EXCEPT !.fit_data = applyWeights(@)])
    ELSE Ended(t, "warning", None)

-----------------------------------------------------------------------------
(* The fit entry points that end in _fitResAction *)

\* the tree t with the nodes and the channel storage an operation left
WithNodes(t, r) == [t EXCEPT !.nodes = r.nodes, !.channel_storage = r.channel_storage]

\* what the calls of calcMembraneConductanceTerms on every node leave: each
\* node has the channels of channel_names
treeWithChannels(t, channel_names) ==
    [t EXCEPT
        !.nodes = [i \in DOMAIN @ |->
                      NodeWithChannels(@[i], t.channel_storage, channel_names).node],
        !.channel_storage =
            @ \cup UNION {MissingChannels(t.nodes[i], channel_names) : i \in DOMAIN t.nodes}]

\* row r of a tensor [o, i, k, :] reshaped to (o*i*k, :): its indices
RowO(r, N) == ((r - 1) \div (N * N)) + 1
RowI(r, N) == ((r - 1) % (N * N)) \div N
RowK(r, N) == (r - 1) % N

\* CompartmentTree._toStructureTensorGM for a tree whose nodes have the channels:
\* g_struct[o][j][k][l], slot l (from 1) being channel (l-1) % n of node (l-1) \div n
toStructureTensorGM(ns, freqs, channel_names, all_channel_names) ==
    [o \in DOMAIN freqs |-> [j \in Indices(ns) |-> [k \in Indices(ns) |->
        [l \in 1 .. (NumNodes(ns) * Len(all_channel_names)) |->
            IF /\ j = k
               /\ ns[(l - 1) \div Len(all_channel_names)].index = j
               /\ all_channel_names[((l - 1) % Len(all_channel_names)) + 1]
                      \in Range(channel_names)
            THEN calcMembraneConductanceTerms(ns[j], freqs, Range(channel_names))[
                     all_channel_names[((l - 1) % Len(all_channel_names)) + 1]][o]
            ELSE Zero]]]]

\* np.einsum('oij,ojkl->oikl', z_mat, g_struct) reshaped to (o*i*k, l)
einsumFeature(z_mat, g_struct, N) ==
    [r \in 1 .. (Len(z_mat) * N * N) |->
        [l \in DOMAIN g_struct[1][0][0] |->
            RSum([jj \in 1 .. N |->
                    RMul(z_mat[RowO(r, N)][RowI(r, N)][jj - 1],
                         g_struct[RowO(r, N)][jj - 1][RowK(r, N)][l])])]]

\* np.eye(N) - np.einsum('oij,ojk->oik', z_mat, g_mat) reshaped to (o*i*k,)
einsumTarget(z_mat, g_mat, N) ==
    [r \in 1 .. (Len(z_mat) * N * N) |->
        RSub(IF RowI(r, N) = RowK(r, N) THEN One ELSE Zero,
             RSum([jj \in 1 .. N |->
                     RMul(z_mat[RowO(r, N)][RowI(r, N)][jj - 1],
                          g_mat[RowO(r, N)][jj - 1][RowK(r, N)])]))]

\* z_mat = self._permuteToTree(z_mat), mat.ndim == 3
permuteToTree3(ns, z_mat) == [o \in DOMAIN z_mat |-> permuteToTree(ns, z_mat[o])]

\* a list argument that is None takes its default
Default(argument, default) == IF argument = NoneList THEN default ELSE argument

\* the default of all_channel_names
AllChannelNames(channel_names, all_channel_names) == Default(all_channel_names, channel_names)

\* the default of other_channel_names
OtherChannelNames(all_channel_names, other_channel_names) ==
    IF other_channel_names = NoneList /\ "L" \notin Range(all_channel_names)
    THEN <<"L">> ELSE other_channel_names

\* computeGChanFromImpedance and computeGSingleChanFromImpedance: the call of
\* _fitResAction they end with, g_mat being what calcSystemMatrix gave; the
\* latter removes the expansion points first
impedanceFitAction(t, z_mat, g_struct, g_mat, weight, all_channel_names, action, remove_expansion_points) ==
    fitResAction(
        IF remove_expansion_points
        THEN [WithNodes(t, g_mat) EXCEPT !.nodes = removeExpansionPoints(@)]
        ELSE WithNodes(t, g_mat),
        action,
        einsumFeature(z_mat, g_struct, NumNodes(t.nodes)),
        einsumTarget(z_mat, g_mat.ret, NumNodes(t.nodes)),
        weight, FALSE, Kwargs(all_channel_names, None))

\* computeGChanFromImpedance and computeGSingleChanFromImpedance: the feature
\* matrix and the target vector, for the tree t whose nodes have the fit
\* channels and z_mat in tree order
impedanceFit(t, z_mat, freqs, weight, channel_names, all_channel_names, other_channel_names, action, remove_expansion_points) ==
    impedanceFitAction(t, z_mat,
        toStructureTensorGM(t.nodes, freqs, channel_names, all_channel_names),
        calcSystemMatrix(t.nodes, t.channel_storage, freqs, FALSE, other_channel_names,
                         TRUE, FALSE, "tree", FALSE),
        weight, all_channel_names, action, remove_expansion_points)

\* CompartmentTree.computeGChanFromImpedance; freqs is the sequence of the
\* frequencies, z_mat the sequence of the impedance matrices at them.
\* _toStructureTensorGM begins with _toVecGM(all_channel_names), which raises
\* KeyError when a node lacks one of the names
computeGChanFromImpedance(t, z_mat, e_eq, freqs, weight, channel_names, all_channel_names, other_channel_names, action) ==
    IF /\ all_channel_names # NoneList
       /\ ~(Range(channel_names) \subseteq Range(all_channel_names))
    THEN Ended(t, "AssertionError", None)
    ELSE IF lacksCurrent(t.nodes, AllChannelNames(channel_names, all_channel_names))
    THEN Ended([t EXCEPT !.nodes = setEEq(@, e_eq)], "KeyError", None)
    ELSE impedanceFit(
            treeWithChannels([t EXCEPT !.nodes = setEEq(@, e_eq)], Range(channel_names)),
            permuteToTree3(t.nodes, z_mat), freqs, weight, channel_names,
            AllChannelNames(channel_names, all_channel_names),
            OtherChannelNames(AllChannelNames(channel_names, all_channel_names),
                              other_channel_names),
            action, FALSE)

\* CompartmentTree.computeGSingleChanFromImpedance; sv is None or the state
\* variables the channel is expanded around
computeGSingleChanFromImpedance(t, z_mat, e_eq, freqs, sv, weight, channel_name, all_channel_names, other_channel_names, action) ==
    IF all_channel_names # NoneList /\ channel_name \notin Range(all_channel_names)
    THEN Ended(t, "AssertionError", None)
    ELSE IF lacksCurrent(t.nodes, AllChannelNames(<<channel_name>>, all_channel_names))
    THEN Ended([t EXCEPT !.nodes = setExpansionPoints(setEEq(@, e_eq), channel_name, sv)],
               "KeyError", None)
    ELSE impedanceFit(
            treeWithChannels(
                [t EXCEPT !.nodes = setExpansionPoints(setEEq(@, e_eq), channel_name, sv)],
                {channel_name}),
            permuteToTree3(t.nodes, z_mat), freqs, weight, <<channel_name>>,
            AllChannelNames(<<channel_name>>, all_channel_names),
            OtherChannelNames(AllChannelNames(<<channel_name>>, all_channel_names),
                              other_channel_names),
            action, TRUE)

\* CompartmentTree._toStructureTensorConc for a tree whose nodes have a
\* concentration mechanism for the ion: c_struct[o][j][k][l], slot l (from 1)
\* being node l-1
toStructureTensorConc(ns, ion, freqs, channel_names) ==
    [o \in DOMAIN freqs |-> [j \in Indices(ns) |-> [k \in Indices(ns) |->
        [l \in 1 .. NumNodes(ns) |->
            IF j = k /\ ns[l - 1].index = j
            THEN calcMembraneConcentrationTerms(ns[j], ion, Range(channel_names), freqs[o])
            ELSE Zero]]]]

\* the gains computeConcMech writes after its own fit
HardCodedGammas ==
    <<Rat(28469767, 1000000), Rat(28160618, 1000000), Rat(28078605, 1000000)>>

\* calcImpedanceMatrix(use_conc, freqs, channel_names) raises LinAlgError: the
\* system matrix is singular at one of the frequencies
impedanceMatrixRaises(t, freqs, channel_names, use_conc) ==
    \E f \in DOMAIN freqs :
        IsSingular(calcSystemMatrix(t.nodes, t.channel_storage, freqs, FALSE,
                                    channel_names, TRUE, use_conc, "locs", TRUE).ret[f])

\* computeConcMech from the writing of the hard-coded gains on: w is what
\* _toTreeConc left
concMechFinish(t, w, mat_feature, vec_target, freqs, ion, weight, channel_names, action) ==
    IF w.res # "ok" THEN Ended([t EXCEPT !.nodes = w.nodes], w.res, None)
    ELSE IF \/ impedanceMatrixRaises([t EXCEPT !.nodes = w.nodes], freqs, channel_names, TRUE)
            \/ impedanceMatrixRaises([t EXCEPT !.nodes = w.nodes], freqs, channel_names,
                                     FALSE)
    THEN Ended([t EXCEPT !.nodes = w.nodes], "LinAlgError", None)
    ELSE fitResAction([t EXCEPT !.nodes = removeExpansionPoints(w.nodes)], action,
                      mat_feature, vec_target, weight, FALSE, Kwargs(NoneList, ion))

\* computeConcMech from the writing of its own fit on: w is what _toTreeConc left
concMechFitted(t, w, mat_feature, vec_target, freqs, ion, weight, channel_names, action) ==
    IF w.res # "ok" THEN Ended([t EXCEPT !.nodes = w.nodes], w.res, None)
    ELSE IF impedanceMatrixRaises([t EXCEPT !.nodes = w.nodes], freqs, channel_names, TRUE)
    THEN Ended([t EXCEPT !.nodes = w.nodes], "LinAlgError", None)
    ELSE concMechFinish([t EXCEPT !.nodes = w.nodes],
                        toTreeConc(w.nodes, HardCodedGammas, ion),
                        mat_feature, vec_target, freqs, ion, weight, channel_names, action)

\* computeConcMech from its solve on, the arrays being built
concMechSolve(t, mat_feature, vec_target, freqs, ion, weight, channel_names, action) ==
    concMechFitted(t, toTreeConc(t.nodes, nnls(mat_feature, vec_target), ion),
                   mat_feature, vec_target, freqs, ion, weight, channel_names, action)

\* computeConcMech from the target vector on, g_mat being what calcSystemMatrix gave
concMechTarget(t, z_mat, c_struct, g_mat, freqs, ion, weight, channel_names, action) ==
    concMechSolve(WithNodes(t, g_mat),
                  einsumFeature(z_mat, c_struct, NumNodes(t.nodes)),
                  einsumTarget(z_mat, g_mat.ret, NumNodes(t.nodes)),
                  freqs, ion, weight, channel_names, action)

\* computeConcMech once the expansion points and the potentials are set
concMechFeature(t, z_mat, freqs, ion, weight, channel_names, action) ==
    IF \E i \in DOMAIN t.nodes : ion \notin DOMAIN t.nodes[i].concmechs
    THEN Ended(t, "KeyError", None)
    ELSE concMechTarget(t, z_mat,
            toStructureTensorConc(t.nodes, ion, freqs, channel_names),
            calcSystemMatrix(t.nodes, t.channel_storage, freqs, FALSE, channel_names,
                             TRUE, FALSE, "tree", TRUE),
            freqs, ion, weight, channel_names, action)

\* computeConcMech: the sv_s of a call that passes none
DefaultSvs(channel_names) == [k \in DOMAIN channel_names |-> NoneStateVars]

\* CompartmentTree.computeConcMech; sv_s is the sequence of the expansion
\* points of the channels
computeConcMech(t, z_mat, e_eq, freqs, ion, sv_s, weight, channel_names, action) ==
    concMechFeature(
        [t EXCEPT !.nodes = setEEq(setExpansionPointsAll(@, channel_names, sv_s), e_eq)],
        permuteToTree3(t.nodes, z_mat), freqs, ion, weight, channel_names, action)

\* np.zeros((rows, cols)) and np.zeros(rows)
ZerosMat(rows, cols) == [r \in 1 .. rows |-> [l \in 1 .. cols |-> Zero]]
ZerosVec(rows) == [r \in 1 .. rows |-> Zero]

\* CompartmentTree.computeGChanFromTrace once the channel name lists are
\* defined: getDynamicI and getDynamicDrive look the channels up in every node
traceFit(t, n_fp, weight, channel_names, all_channel_names, other_channel_names, action) ==
    IF \E i \in DOMAIN t.nodes :
          ~((Range(other_channel_names)
                \cup (Range(channel_names) \cap Range(all_channel_names)))
            \subseteq DOMAIN t.nodes[i].currents)
    THEN Ended(t, "KeyError", None)
    ELSE fitResAction(t, action,
            ZerosMat(n_fp * NumNodes(t.nodes), NumNodes(t.nodes) * Len(all_channel_names)),
            ZerosVec(n_fp * NumNodes(t.nodes)),
            weight, FALSE, Kwargs(all_channel_names, None))

\* CompartmentTree.computeGChanFromTrace with traces of n_fp fit points at every
\* location; p_open_channels and p_open_other_channels are the keys of the dicts
computeGChanFromTrace(t, n_fp, p_open_channels, p_open_other_channels, weight, channel_names, all_channel_names, other_channel_names, action) ==
    IF \/ (channel_names # NoneList /\ Range(channel_names) # Range(p_open_channels))
       \/ (other_channel_names # NoneList
              /\ Range(other_channel_names) # Range(p_open_other_channels))
       \/ (all_channel_names # NoneList
              /\ ~(Range(Default(channel_names, p_open_channels))
                      \subseteq Range(all_channel_names)))
    THEN Ended(t, "AssertionError", None)
    ELSE traceFit(t, n_fp, weight, Default(channel_names, p_open_channels),
                  AllChannelNames(Default(channel_names, p_open_channels),
                                  all_channel_names),
                  Default(other_channel_names, p_open_other_channels), action)


-----------------------------------------------------------------------------
(* The batch fits over several operating potentials: their arguments *)

\* a vector and a matrix with every entry computed, once
Computed(vec) == vec @@ <<>>
ComputedMat(mat) == [i \in DOMAIN mat |-> mat[i] @@ <<>>] @@ <<>>

\* not-a-number: what np.sqrt gives for a negative weight
NaN == <<0, 0>>

\* the integer square root of a perfect square
ISqrt(n) == CHOOSE k \in 0 .. n : k * k = n

\* np.sqrt of a weight, a ratio of perfect squares when it is not negative
Sqrt(x) == IF x = NaN \/ x[1] < 0 THEN NaN ELSE <<ISqrt(x[1]), ISqrt(x[2])>>

\* the product with a factor that may be not-a-number
RTimes(x, s) == IF s = NaN \/ x = NaN THEN NaN ELSE RMul(x, s)

\* mat_feature_aux * np.sqrt(w_e_eq) and vec_target_aux * np.sqrt(w_e_eq)
TimesSqrtMat(mat, w) == [r \in DOMAIN mat |-> [l \in DOMAIN mat[r] |-> RTimes(mat[r][l], Sqrt(w))]]
TimesSqrtVec(vec, w) == [r \in DOMAIN vec |-> RTimes(vec[r], Sqrt(w))]

\* an array holds a not-a-number
HasNaN(vec) == \E r \in DOMAIN vec : vec[r] = NaN

\* CompartmentTree._preprocessZMatArg for a list of arrays of ndim axes: each
\* is permuted to tree order
preprocessZMatArg(ns, z_mat_arg, ndim) ==
    IF \E k \in DOMAIN z_mat_arg : permuteToTreeNd(ns, z_mat_arg[k], ndim).res # "ok"
    THEN [res |-> "IndexError", ret |-> <<>>]
    ELSE [res |-> "ok",
          ret |-> [k \in DOMAIN z_mat_arg |-> permuteToTreeNd(ns, z_mat_arg[k], ndim).ret]]

\* an argument w_e_eqs: omitted, or an array, a list, a tuple or a float
\* (a float being the only entry of w)
NoWeights == [form |-> "None", w |-> <<>>]

\* an argument e_eqs: omitted, or the list e of floats
NoEEqs == [given |-> FALSE, e |-> <<>>]
EEqs(e) == [given |-> TRUE, e |-> e]

\* CompartmentTree._preprocessEEqs, the e_eqs part.  None becomes
\* np.array([self.getEEq()]), a single condition whose e_eq is the array of
\* the nodes' own e_eq (from_tree).
preprocessEEqsPotentials(e_eqs) ==
    IF ~e_eqs.given THEN [from_tree |-> TRUE, e_eqs |-> <<0>>]
    ELSE [from_tree |-> FALSE, e_eqs |-> e_eqs.e]

\* CompartmentTree._preprocessEEqs, the w_e_eqs part, e being the preprocessed
\* e_eqs (not from the tree when a float is given): a float becomes
\* np.array([e_eqs]), whose first axis has length 1 and whose only row is e_eqs
preprocessEEqsWeights(e, w_e_eqs) ==
    IF w_e_eqs.form = "None"
    THEN [res |-> "ok", w_e_eqs |-> [k \in DOMAIN e.e_eqs |-> One]]
    ELSE IF w_e_eqs.form = "float"
    THEN (IF Len(e.e_eqs) = 1
          THEN [res |-> "ok", w_e_eqs |-> <<R(e.e_eqs[1])>>]
          ELSE [res |-> "AssertionError", w_e_eqs |-> <<>>])
    ELSE IF Len(w_e_eqs.w) = Len(e.e_eqs)
    THEN [res |-> "ok", w_e_eqs |-> w_e_eqs.w]
    ELSE [res |-> "AssertionError", w_e_eqs |-> <<>>]

\* CompartmentTree._preprocessFreqs with w_freqs omitted: every stack of
\* impedance matrices has one matrix per frequency
preprocessFreqs(freqs, z_mat_arg) ==
    IF \A k \in DOMAIN z_mat_arg : Len(z_mat_arg[k]) = Len(freqs)
    THEN "ok" ELSE "AssertionError"

\* CompartmentTree.setEEq with an array, which is permuted to tree order
setEEqArray(ns, e_eq) == [i \in DOMAIN ns |-> [ns[i] EXCEPT !.e_eq = e_eq[ns[i].loc_ind]]]

\* CompartmentTree.getEEq
getEEq(ns) == [i \in DOMAIN ns |-> ns[i].e_eq]

\* self.setEEq(e_eq) in the loop over the conditions
setEEqOfCondition(ns, e, k) ==
    IF e.from_tree THEN setEEqArray(ns, getEEq(ns)) ELSE setEEq(ns, e.e_eqs[k])

RECURSIVE ListOf(_)
\* list(S) for a set S of channel names
ListOf(S) == IF S = {} THEN <<>>
             ELSE <<CHOOSE c \in S : TRUE>> \o ListOf(S \ {CHOOSE c \in S : TRUE})

\* scipy.linalg.lstsq(mat_feature, vec_target)[0] for a decoupled matrix: the
\* minimiser of |mat x - vec| of least norm (0 for a column of zeros)
lstsq(mat_feature, vec_target) ==
    [l \in 1 .. NumCols(mat_feature) |->
        IF ColSq(mat_feature, l) = Zero THEN Zero
        ELSE RDiv(ColDot(mat_feature, vec_target, l), ColSq(mat_feature, l))]

-----------------------------------------------------------------------------
(* computeGM and computeGMSingleChan *)

\* the arrays of one condition: the tree t (e_eq and expansion points set)
\* gets the fit channels, then calcSystemMatrix gives Y_known
gmConditionArrays(tc, z_mat, freqs, channel_names, g_mat) ==
    [t |-> WithNodes(tc, g_mat),
     mat |-> einsumFeature(z_mat,
                           toStructureTensorGM(tc.nodes, freqs, channel_names, channel_names),
                           NumNodes(tc.nodes)),
     vec |-> einsumTarget(z_mat, g_mat.ret, NumNodes(tc.nodes))]

\* one turn of the loop of computeGM and computeGMSingleChan, after setEEq and
\* setExpansionPoints: g_struct, then g_mat = calcSystemMatrix(freqs,
\* channel_names=other_channel_names, indexing='tree')
gmCondition(t, z_mat, freqs, channel_names, other_channel_names) ==
    gmConditionArrays(treeWithChannels(t, Range(channel_names)), z_mat, freqs, channel_names,
        calcSystemMatrix(treeWithChannels(t, Range(channel_names)).nodes,
                         treeWithChannels(t, Range(channel_names)).channel_storage,
                         freqs, FALSE, other_channel_names, TRUE, FALSE, "tree", TRUE))

\* the weight of a condition broadcasts: with e_eqs and w_e_eqs omitted the
\* weight is np.ones_like of the nodes' e_eq, an array of one entry per node,
\* which multiplies a vector of F*N*N entries only on a tree of one node
WeightBroadcasts(t, e, ones_like) == ~(e.from_tree /\ ones_like) \/ NumNodes(t.nodes) = 1

RECURSIVE gmLoop(_, _, _, _, _, _, _)
\* what a turn of the loop appends to mats_feature and vecs_target
gmAppend(c, k, z_mats, e, w, a, acc) ==
    IF ~WeightBroadcasts(c.t, e, a.ones_like) THEN [res |-> "ValueError", t |-> c.t, mat |-> <<>>, vec |-> <<>>]
    ELSE gmLoop(c.t, k + 1, z_mats, e, w, a,
                [mat |-> acc.mat \o TimesSqrtMat(c.mat, w[k]),
                 vec |-> acc.vec \o TimesSqrtVec(c.vec, w[k])])

\* the loop of computeGM and computeGMSingleChan over the conditions from the
\* k-th on; a holds freqs, channel_names, other_channel_names, ones_like
\* (w_e_eqs was omitted) and single (computeGMSingleChan, which sets the
\* expansion point of its channel, to None).  _toStructureTensorGM begins with
\* _toVecGM, which raises KeyError when a node lacks one of the fit channels
gmLoop(t, k, z_mats, e, w, a, acc) ==
    IF k > Len(z_mats) THEN [res |-> "ok", t |-> t, mat |-> acc.mat, vec |-> acc.vec]
    ELSE IF lacksCurrent(t.nodes, a.channel_names)
    THEN [res |-> "KeyError",
          t |-> [t EXCEPT !.nodes =
                    IF a.single
                    THEN setExpansionPoints(setEEqOfCondition(@, e, k), a.channel_names[1],
                                            NoneStateVars)
                    ELSE setEEqOfCondition(@, e, k)],
          mat |-> <<>>, vec |-> <<>>]
    ELSE gmAppend(
            gmCondition(
                [t EXCEPT !.nodes =
                    IF a.single
                    THEN setExpansionPoints(setEEqOfCondition(@, e, k), a.channel_names[1],
                                            NoneStateVars)
                    ELSE setEEqOfCondition(@, e, k)],
                z_mats[k], a.freqs, a.channel_names, a.other_channel_names),
            k, z_mats, e, w, a, acc)

\* the end of computeGM and computeGMSingleChan: the arrays are returned, or
\* solved by la.lstsq (which refuses arrays with not-a-number) and written
gmFinish(done, channel_names, return_matrices) ==
    IF done.res # "ok" THEN Ended(done.t, done.res, None)
    ELSE IF return_matrices THEN Ended(done.t, "ok", <<done.mat, done.vec>>)
    ELSE IF \E r \in DOMAIN done.mat : HasNaN(done.mat[r]) THEN Ended(done.t, "ValueError", None)
    ELSE Written(done.t, toTreeGM(done.t.nodes, lstsq(done.mat, done.vec), channel_names))

\* computeGM and computeGMSingleChan after the defaults of the channel names:
\* the preprocessing of the arguments, the loop, the end
gmFit(t, z_mat_arg, e_eqs, freqs, w_e_eqs, a, return_matrices) ==
    IF preprocessZMatArg(t.nodes, z_mat_arg, 3).res # "ok"
    THEN Ended(t, "IndexError", None)
    ELSE IF preprocessEEqsWeights(preprocessEEqsPotentials(e_eqs), w_e_eqs).res # "ok"
    THEN Ended(t, "AssertionError", None)
    ELSE IF Len(z_mat_arg) # Len(preprocessEEqsPotentials(e_eqs).e_eqs)
    THEN Ended(t, "AssertionError", None)
    ELSE IF preprocessFreqs(freqs, z_mat_arg) # "ok"
    THEN Ended(t, "AssertionError", None)
    ELSE gmFinish(gmLoop(t, 1, preprocessZMatArg(t.nodes, z_mat_arg, 3).ret,
                         preprocessEEqsPotentials(e_eqs),
                         preprocessEEqsWeights(preprocessEEqsPotentials(e_eqs), w_e_eqs).w_e_eqs,
                         a, [mat |-> <<>>, vec |-> <<>>]),
                  a.channel_names, return_matrices)

\* computeGM: the default of channel_names
GMChannelNames(cs, channel_names) == Default(channel_names, <<"L">> \o ListOf(cs))

\* computeGM: the default of other_channel_names
GMOtherChannelNames(cs, channel_names, other_channel_names) ==
    Default(other_channel_names, ListOf(cs \ Range(channel_names)))

\* CompartmentTree.computeGM, freqs an array and w_freqs omitted
computeGM(t, z_mat_arg, e_eqs, freqs, w_e_eqs, channel_names, other_channel_names, return_matrices) ==
    gmFit(t, z_mat_arg, e_eqs, freqs, w_e_eqs,
          [freqs |-> freqs, single |-> FALSE, ones_like |-> w_e_eqs.form = "None",
           channel_names |-> GMChannelNames(t.channel_storage, channel_names),
           other_channel_names |->
               GMOtherChannelNames(t.channel_storage,
                                   GMChannelNames(t.channel_storage, channel_names),
                                   other_channel_names)],
          return_matrices)

\* CompartmentTree.computeGMSingleChan, freqs an array, svs and w_freqs omitted
computeGMSingleChan(t, z_mat_arg, e_eqs, freqs, w_e_eqs, channel_name, return_matrices) ==
    gmFit(t, z_mat_arg, e_eqs, freqs, w_e_eqs,
          [freqs |-> freqs, single |-> TRUE, ones_like |-> w_e_eqs.form = "None",
           channel_names |-> <<channel_name>>,
           other_channel_names |-> <<"L">>],
          return_matrices)

-----------------------------------------------------------------------------
(* computeGMC *)

\* the columns S (a sequence of column numbers) of mat: their inner products
Gram(mat, S) ==
    ComputedMat([a \in 0 .. (Len(S) - 1) |-> [c \in 0 .. (Len(S) - 1) |->
        RSum([r \in DOMAIN mat |-> RMul(mat[r][S[a + 1]], mat[r][S[c + 1]])])]])

\* the minimiser of |mat x - vec| over the x that are zero outside the
\* columns S, which are linearly independent,
SolveOnWith(mat, vec, S, inv) ==
    Computed([l \in 1 .. NumCols(mat) |->
        IF \E a \in DOMAIN S : S[a] = l
        THEN RSum([c \in DOMAIN S |->
                     RMul(inv[(CHOOSE a \in DOMAIN S : S[a] = l) - 1][c - 1],
                          ColDot(mat, vec, S[c]))])
        ELSE Zero])
\* inv being the inverse of the inner products of the columns S
SolveOn(mat, vec, S) ==
    CHOOSE x \in {SolveOnWith(mat, vec, S, inv) : inv \in {ComputedMat(Inverse(Gram(mat, S)))}} :
        TRUE

\* mat x - vec
Residual(mat, x, vec) ==
    Computed([r \in DOMAIN mat |->
        RSub(RSum([l \in DOMAIN mat[r] |-> RMul(mat[r][l], x[l])]), vec[r])])

\* x is where the active-set iteration of nnls ends: no entry of x is
\* negative and no entry of the gradient mat^T (mat x - vec) is; the gradient
\* is zero on the columns x was solved on
IsNnlsSolution(mat, vec, x) ==
    /\ \A l \in 1 .. NumCols(mat) : RLeq(Zero, x[l])
    /\ \E residual \in {Residual(mat, x, vec)} :
          \A l \in 1 .. NumCols(mat) : RLeq(Zero, ColDot(mat, residual, l))

\* the increasing sequences of column numbers up to n
ColumnSets(n) == {SelectSeq([l \in 1 .. n |-> l], LAMBDA l : l \in S) : S \in SUBSET (1 .. n)}

\* scipy.optimize.nnls(mat_feature, vec_target)[0] for any matrix: the
\* minimiser of |mat x - vec| over x >= 0 that the active-set iteration ends
\* with, solved on linearly independent columns and zero on the other ones
nnlsActiveSet(mat_feature, vec_target) ==
    CHOOSE x \in {SolveOn(mat_feature, vec_target, S) :
                     S \in {T \in ColumnSets(NumCols(mat_feature)) :
                               Determinant(Gram(mat_feature, T)) # Zero}} :
        IsNnlsSolution(mat_feature, vec_target, x)

\* the slots of the vector of _toVecGMC: the root has one per channel, every
\* other node one for g_c and one per channel.  The node of slot l (from 1)
SlotNode(l, nc) == IF l <= nc THEN 0 ELSE 1 + ((l - nc - 1) \div (nc + 1))
\* what slot l holds of its node: 0 for g_c, else the number of the channel
SlotItem(l, nc) == IF l <= nc THEN l ELSE (l - nc - 1) % (nc + 1)

\* CompartmentTree._toVecGMC
toVecGMC(ns, channel_names) ==
    [l \in 1 .. (NumNodes(ns) * (Len(channel_names) + 1) - 1) |->
        IF SlotItem(l, Len(channel_names)) = 0 THEN ns[SlotNode(l, Len(channel_names))].g_c
        ELSE ns[SlotNode(l, Len(channel_names))].currents[
                 channel_names[SlotItem(l, Len(channel_names))]][1]]

\* a faulty entry that leaves out the +1 on the diagonal entry of the parent:
\* C17_GMCRoundTrip tells it from structureEntryGMC
structureEntryGMCNoParentDiagonal(ns, channel_names, j, k, l, n, p) ==
    IF SlotItem(l, Len(channel_names)) = 0
    THEN (IF (j = n /\ k = p) \/ (j = p /\ k = n) THEN <<-1, 1>>
          ELSE IF j = n /\ k = n THEN One
          ELSE Zero)
    ELSE IF j = n /\ k = n
    THEN calcMembraneConductanceTerms(ns[n], <<0>>, {"L"} \cup Range(channel_names))[
             channel_names[SlotItem(l, Len(channel_names))]][1]
    ELSE Zero

\* CompartmentTree._toStructureTensorGMC, one entry: g_struct[j][k][l] for the
\* node n of slot l and its parent p (n itself for the root)
structureEntryGMC(ns, channel_names, j, k, l, n, p) ==
    IF SlotItem(l, Len(channel_names)) = 0
    THEN (IF (j = n /\ k = p) \/ (j = p /\ k = n) THEN <<-1, 1>>
          ELSE IF (j = p /\ k = p) \/ (j = n /\ k = n) THEN One
          ELSE Zero)
    ELSE IF j = n /\ k = n
    THEN calcMembraneConductanceTerms(ns[n], <<0>>, {"L"} \cup Range(channel_names))[
             channel_names[SlotItem(l, Len(channel_names))]][1]
    ELSE Zero

\* CompartmentTree._toStructureTensorGMC for a tree whose nodes have the
\* channels
toStructureTensorGMC(ns, channel_names) ==
    [j \in Indices(ns) |-> [k \in Indices(ns) |->
        [l \in 1 .. (NumNodes(ns) * (Len(channel_names) + 1) - 1) |->
            structureEntryGMC(ns, channel_names, j, k, l,
                ns[SlotNode(l, Len(channel_names))].index,
                IF IsRoot(ns[SlotNode(l, Len(channel_names))])
                THEN ns[SlotNode(l, Len(channel_names))].index
                ELSE ns[ns[SlotNode(l, Len(channel_names))].parent_node].index)]]]

\* CompartmentTree._toTreeGMC
toTreeGMC(ns, g_vec, channel_names) ==
    [i \in DOMAIN ns |->
        [ns[i] EXCEPT
            !.g_c = IF IsRoot(ns[i]) THEN @
                    ELSE g_vec[CHOOSE l \in DOMAIN g_vec :
                                  /\ SlotNode(l, Len(channel_names)) = i
                                  /\ SlotItem(l, Len(channel_names)) = 0],
            !.currents = [c \in DOMAIN @ |->
                IF c \in Range(channel_names)
                THEN <<g_vec[CHOOSE l \in DOMAIN g_vec :
                               /\ SlotNode(l, Len(channel_names)) = i
                               /\ SlotItem(l, Len(channel_names)) # 0
                               /\ channel_names[SlotItem(l, Len(channel_names))] = c],
                       @[c][2]>>
                ELSE @[c]]]]

\* np.einsum('ij,jkl->ikl', z_mat, g_struct) reshaped to (i*k, l)
einsumFeatureGMC(z_mat, g_struct, N) ==
    [r \in 1 .. (N * N) |->
        [l \in DOMAIN g_struct[0][0] |->
            RSum([jj \in 1 .. N |->
                    RMul(z_mat[(r - 1) \div N][jj - 1], g_struct[jj - 1][(r - 1) % N][l])])]]

\* np.reshape(np.eye(len(self)), (len(self)*len(self),))
eyeVector(N) == [r \in 1 .. (N * N) |-> IF (r - 1) \div N = (r - 1) % N THEN One ELSE Zero]

RECURSIVE gmcLoop(_, _, _, _, _, _)
\* the loop of computeGMC over the conditions from the k-th on
gmcLoop(t, k, z_mats, e, channel_names, acc) ==
    IF k > Len(z_mats) THEN [t |-> t, mat |-> acc.mat, vec |-> acc.vec]
    ELSE gmcLoop(treeWithChannels([t EXCEPT !.nodes = setEEqOfCondition(@, e, k)],
                                  Range(channel_names)),
                 k + 1, z_mats, e, channel_names,
                 [mat |-> acc.mat \o
                      einsumFeatureGMC(z_mats[k],
                          toStructureTensorGMC(
                              treeWithChannels([t EXCEPT !.nodes = setEEqOfCondition(@, e, k)],
                                               Range(channel_names)).nodes,
                              channel_names),
                          NumNodes(t.nodes)),
                  vec |-> acc.vec \o eyeVector(NumNodes(t.nodes))])

\* the end of computeGMC: the solve by so.nnls and the writing of its result
gmcFinish(done, channel_names) ==
    [nodes |-> toTreeGMC(done.t.nodes,
                         nnlsActiveSet(ComputedMat(done.mat), Computed(done.vec)),
                         channel_names),
     channel_storage |-> done.t.channel_storage, fit_data |-> done.t.fit_data,
     res |-> "ok", ret |-> None]

\* CompartmentTree.computeGMC, z_mat_arg a list of matrices
computeGMC(t, z_mat_arg, e_eqs, channel_names) ==
    IF preprocessZMatArg(t.nodes, z_mat_arg, 2).res # "ok"
    THEN Ended(t, "IndexError", None)
    ELSE IF Len(z_mat_arg) # Len(preprocessEEqsPotentials(e_eqs).e_eqs)
    THEN Ended(t, "AssertionError", None)
    ELSE gmcFinish(gmcLoop(t, 1, preprocessZMatArg(t.nodes, z_mat_arg, 2).ret,
                           preprocessEEqsPotentials(e_eqs), channel_names,
                           [mat |-> <<>>, vec |-> <<>>]),
                   channel_names)
-----------------------------------------------------------------------------
(* The trees the specifications start from *)

\* the parent of every node of a tree of N nodes: node 0 is the root and the
\* parent of a node has a smaller index
ParentVectors(N) ==
    {p \in [0 .. (N - 1) -> (-1) .. (N - 2)] :
        /\ p[0] = NoParent
        /\ \A i \in 1 .. (N - 1) : p[i] >= 0 /\ p[i] < i}

\* assignments of loc_ind: the identity, the reversal and the rotation by one
LocInds(N) ==
    {[i \in 0 .. (N - 1) |-> i],
     [i \in 0 .. (N - 1) |-> N - 1 - i],
     [i \in 0 .. (N - 1) |-> (i + 1) % N]}

\* coupling conductances: the root's g_c (0 by default) and a step by which the
\* g_c of the other nodes grows with their index
RootGcValues == {0, 3}
GcSteps == {-1, 1, 2}

\* a node as the fitter sets it up when the model has channels and a calcium pool
WithChannels(node) ==
    [node EXCEPT
        !.currents = [c \in {"L", "CaT", "SK"} |->
                        IF c = "L" THEN @["L"]
                        ELSE IF c = "CaT" THEN <<R(2), E_REV_DICT(c)>>
                        ELSE <<R(3), E_REV_DICT(c)>>],
        !.expansion_points = [c \in {"CaT", "SK"} |-> NoneStateVars],
        !.concmechs = [i \in {"ca"} |-> [gamma |-> One, tau |-> One]]]

\* CompartmentTree.createCorrespondingNode for every node of the tree
MakeTree(N, parent, loc_ind, root_g_c, g_c_step, channels) ==
    [i \in 0 .. (N - 1) |->
        IF channels
        THEN WithChannels(CompartmentNode(i, loc_ind[i], parent[i], One,
                              IF i = 0 THEN R(root_g_c) ELSE R(g_c_step * i), One, -75))
        ELSE CompartmentNode(i, loc_ind[i], parent[i], One,
                             IF i = 0 THEN R(root_g_c) ELSE R(g_c_step * i), One, -75)]

InitTrees(maxN) ==
    UNION {{MakeTree(N, p, l, r, g, ch) :
                p \in ParentVectors(N), l \in LocInds(N),
                r \in RootGcValues, g \in GcSteps, ch \in BOOLEAN} : N \in 1 .. maxN}

\* the trees of the fit specifications: the root's g_c is 0 and the other
\* coupling conductances are positive
FitTrees(maxN) ==
    UNION {{MakeTree(N, p, l, 0, 1, ch) :
                p \in ParentVectors(N), l \in LocInds(N), ch \in BOOLEAN} : N \in 1 .. maxN}

\* the channels of a tree that has just been built
InitChannelStorage(ns) == (DOMAIN ns[0].currents) \ {"L"}

\* the tree of the current state
Tree == [nodes |-> nodes, channel_storage |-> channel_storage, fit_data |-> fit_data]

\* the state an operation leaves
Leaves(r) ==
    /\ nodes' = r.nodes
    /\ channel_storage' = r.channel_storage
    /\ UNCHANGED phys_tree
    /\ fit_data' = r.fit_data
    /\ res' = r.res
    /\ ret' = r.ret

-----------------------------------------------------------------------------
(* Specification SpecMat: a matrix operation applied to a tree *)

\* the arguments the matrix operations are called with
FreqArgs == {[freqs |-> <<0>>, no_freq_dim |-> TRUE],
             [freqs |-> <<0, 1000>>, no_freq_dim |-> FALSE]}
ChannelNameArgs == {NoneList, <<"L">>, <<"CaT">>, <<"SK", "CaT">>}
IndexingArgs == {"tree", "locs", "nodes"}
\* the frequencies and channels calcImpedanceMatrix is called with: every choice
\* of channels at frequency zero, the leak alone at two frequencies, which keeps
\* the determinants within the integers of the model checker
ImpedanceArgs ==
    {[freqs |-> <<0>>, no_freq_dim |-> TRUE, channel_names |-> c, use_conc |-> u] :
        c \in ChannelNameArgs, u \in BOOLEAN}
    \cup {[freqs |-> <<0, 1>>, no_freq_dim |-> FALSE, channel_names |-> <<"L">>,
           use_conc |-> u] : u \in BOOLEAN}

InitMat ==
    /\ nodes \in InitTrees(MaxNodes)
    /\ channel_storage = InitChannelStorage(nodes)
    /\ phys_tree = None
    /\ fit_data = IdleFitData
    /\ op = "init" /\ call = None /\ res = "ok" /\ ret = None

CalcConductanceMatrix(indexing) ==
    /\ op = "init"
    /\ \E r \in {calcConductanceMatrix(nodes, indexing)} :
        /\ op' = "calcConductanceMatrix"
        /\ call' = [indexing |-> indexing]
        /\ res' = r.res
        /\ ret' = r.ret
        /\ UNCHANGED <<nodes, channel_storage, fit_data, phys_tree>>

CalcSystemMatrix(fa, channel_names, with_ca, use_conc, indexing, add_L) ==
    /\ op = "init"
    /\ \E r \in {calcSystemMatrix(nodes, channel_storage, fa.freqs, fa.no_freq_dim,
                                  channel_names, with_ca, use_conc, indexing, add_L)} :
        /\ op' = "calcSystemMatrix"
        /\ call' = [freqs |-> fa.freqs, no_freq_dim |-> fa.no_freq_dim,
                    channel_names |-> channel_names, with_ca |-> with_ca,
                    use_conc |-> use_conc, indexing |-> indexing, add_L |-> add_L]
        /\ res' = r.res
        /\ ret' = r.ret
        /\ nodes' = r.nodes
        /\ channel_storage' = r.channel_storage
        /\ UNCHANGED <<fit_data, phys_tree>>

\* arrays of side K with entries that all differ: a vector, a matrix and a
\* stack of two matrices
ArrayArgs(K) ==
    {[ndim |-> 1, mat |-> [i \in 0 .. (K - 1) |-> R(i + 1)]],
     [ndim |-> 2, mat |-> [i \in 0 .. (K - 1) |-> [j \in 0 .. (K - 1) |-> R(10 * i + j)]]],
     [ndim |-> 3, mat |-> [o \in 1 .. 2 |-> [i \in 0 .. (K - 1) |->
                              [j \in 0 .. (K - 1) |-> R(100 * o + 10 * i + j)]]]]}

PermuteToTree(a) ==
    /\ op = "init"
    /\ \E r \in {permuteToTreeNd(nodes, a.mat, a.ndim)} :
        /\ op' = "_permuteToTree"
        /\ call' = a
        /\ res' = r.res
        /\ ret' = r.ret
        /\ UNCHANGED <<nodes, channel_storage, fit_data, phys_tree>>

PermuteToLocs(a) ==
    /\ op = "init"
    /\ \E r \in {permuteToLocsNd(nodes, a.mat, a.ndim)} :
        /\ op' = "_permuteToLocs"
        /\ call' = a
        /\ res' = r.res
        /\ ret' = r.ret
        /\ UNCHANGED <<nodes, channel_storage, fit_data, phys_tree>>

CalcImpedanceMatrix(fa, channel_names, indexing, use_conc) ==
    /\ op = "init"
    /\ use_conc => NumNodes(nodes) <= MaxConcNodes
    /\ \E r \in {calcImpedanceMatrix(nodes, channel_storage, fa.freqs, fa.no_freq_dim,
                                     channel_names, indexing, use_conc)} :
        /\ op' = "calcImpedanceMatrix"
        /\ call' = [freqs |-> fa.freqs, no_freq_dim |-> fa.no_freq_dim,
                    channel_names |-> channel_names, use_conc |-> use_conc,
                    indexing |-> indexing]
        /\ res' = r.res
        /\ ret' = r.ret
        /\ nodes' = r.nodes
        /\ channel_storage' = r.channel_storage
        /\ UNCHANGED <<fit_data, phys_tree>>

NextMat ==
    \/ \E a \in ImpedanceArgs, indexing \in IndexingArgs :
          CalcImpedanceMatrix(a, a.channel_names, indexing, a.use_conc)
    \/ \E K \in {NumNodes(nodes), NumNodes(nodes) + 1} : \E a \in ArrayArgs(K) :
          PermuteToTree(a)
    \/ \E K \in {NumNodes(nodes), NumNodes(nodes) + 1} : \E a \in ArrayArgs(K) :
          PermuteToLocs(a)
    \/ \E indexing \in IndexingArgs : CalcConductanceMatrix(indexing)
    \/ \E fa \in FreqArgs, channel_names \in ChannelNameArgs, with_ca \in BOOLEAN,
          use_conc \in BOOLEAN, indexing \in IndexingArgs, add_L \in BOOLEAN :
          CalcSystemMatrix(fa, channel_names, with_ca, use_conc, indexing, add_L)

SpecMat == InitMat /\ [][NextMat]_vars

-----------------------------------------------------------------------------
(* Specification Spec: the fit accumulator, driven by calls of _fitResAction, *)
(* runFit and resetFitData                                                    *)

\* the (mat_feature, vec_target) pairs the calls pass: one equation in one
\* parameter, with the solutions 1 and 2
FitProblems ==
    {[mat_feature |-> <<<<One>>>>, vec_target |-> <<One>>],
     [mat_feature |-> <<<<One>>>>, vec_target |-> <<R(2)>>]}

\* the weights the calls pass (SpecIdem varies them)
Weights == {One}

\* the family a call names: channel_names, ion, capacitance or none of them
FamilyArgs ==
    {[kwargs |-> Kwargs(cn, None), capacitance |-> FALSE] :
        cn \in {<<>>, <<"L">>, <<"L", "CaT">>}}
    \cup {[kwargs |-> Kwargs(NoneList, ion), capacitance |-> FALSE] : ion \in {"ca", "k"}}
    \cup {[kwargs |-> NoKwargs, capacitance |-> c] : c \in BOOLEAN}

Actions == {"store", "fit", "return", "plot"}

Init ==
    /\ nodes \in {ns \in FitTrees(MaxAccNodes) :
                    \A i \in DOMAIN ns : ns[i].loc_ind = i /\ "CaT" \in DOMAIN ns[i].currents}
    /\ channel_storage = InitChannelStorage(nodes)
    /\ phys_tree = None
    /\ fit_data = IdleFitData
    /\ op = "init" /\ call = None /\ res = "ok" /\ ret = None

FitResAction(action, problem, weight, family) ==
    /\ action = "store" => Len(fit_data.mats_feature) < MaxStored
    /\ op' = "_fitResAction"
    /\ call' = [action |-> action, mat_feature |-> problem.mat_feature,
                vec_target |-> problem.vec_target, weight |-> weight,
                capacitance |-> family.capacitance, kwargs |-> family.kwargs]
    /\ \E r \in {fitResAction(Tree, action, problem.mat_feature, problem.vec_target,
                              weight, family.capacitance, family.kwargs)} : Leaves(r)

RunFit ==
    /\ op' = "runFit"
    /\ call' = None
    /\ \E r \in {runFit(Tree)} : Leaves(r)

ResetFitData ==
    /\ op' = "resetFitData"
    /\ call' = None
    /\ UNCHANGED phys_tree
    /\ fit_data' = resetFitData(fit_data)
    /\ res' = "ok"
    /\ ret' = None
    /\ UNCHANGED <<nodes, channel_storage>>

Next ==
    \/ \E action \in Actions, problem \in FitProblems, weight \in Weights,
          family \in FamilyArgs : FitResAction(action, problem, weight, family)
    \/ RunFit
    \/ ResetFitData

Spec == Init /\ [][Next]_vars


-----------------------------------------------------------------------------
(* Specification SpecFit: one call of a fit entry point on a tree whose      *)
(* accumulator is idle or holds one stored triple                            *)

\* an impedance matrix of N locations
ZMat(N, a) ==
    [i \in 0 .. (N - 1) |-> [j \in 0 .. (N - 1) |->
        IF i = j THEN Rat(1, a) ELSE Rat(1, 2 * a)]]

\* the impedance matrices at the frequencies freqs
ZMatArgs(N, freqs) == {[o \in DOMAIN freqs |-> ZMat(N, a)] : a \in {1, 2}}

FitFreqArgs == {<<0>>, <<0, 1000>>}
EEqArgs == {-75, -65}
FitActions == {"store", "fit", "return"}

\* the accumulator after _fitResAction('store', [[1]], [1], 1, channel_names=['L'])
\* on the tree t with an idle accumulator
StoredOne(t) ==
    fitResAction(t, "store", <<<<One>>>>, <<One>>, One, FALSE,
                 Kwargs(<<"L">>, None)).fit_data

InitFit ==
    /\ nodes \in FitTrees(MaxFitNodes)
    /\ channel_storage = InitChannelStorage(nodes)
    /\ phys_tree = None
    /\ fit_data \in {IdleFitData,
                     StoredOne([nodes |-> nodes, channel_storage |-> channel_storage,
                                fit_data |-> IdleFitData])}
    /\ op = "init" /\ call = None /\ res = "ok" /\ ret = None

ComputeGChanFromImpedance(z_mat, e_eq, freqs, channel_names, all_channel_names, action) ==
    /\ op = "init"
    /\ op' = "computeGChanFromImpedance"
    /\ call' = [z_mat |-> z_mat, e_eq |-> e_eq, freqs |-> freqs,
                channel_names |-> channel_names,
                all_channel_names |-> all_channel_names, action |-> action]
    /\ \E r \in {computeGChanFromImpedance(Tree, z_mat, e_eq, freqs, One, channel_names,
                                           all_channel_names, NoneList, action)} :
          Leaves(r)

ComputeGSingleChanFromImpedance(z_mat, e_eq, freqs, sv, channel_name, all_channel_names, action) ==
    /\ op = "init"
    /\ op' = "computeGSingleChanFromImpedance"
    /\ call' = [z_mat |-> z_mat, e_eq |-> e_eq, freqs |-> freqs, sv |-> sv,
                channel_name |-> channel_name,
                all_channel_names |-> all_channel_names, action |-> action]
    /\ \E r \in {computeGSingleChanFromImpedance(Tree, z_mat, e_eq, freqs, sv, One,
                                                 channel_name, all_channel_names,
                                                 NoneList, action)} :
          Leaves(r)

ComputeConcMech(z_mat, e_eq, freqs, ion, sv_s, channel_names, action) ==
    /\ op = "init"
    /\ op' = "computeConcMech"
    /\ call' = [z_mat |-> z_mat, e_eq |-> e_eq, freqs |-> freqs, ion |-> ion,
                sv_s |-> sv_s, channel_names |-> channel_names, action |-> action]
    /\ \E r \in {computeConcMech(Tree, z_mat, e_eq, freqs, ion, sv_s, One,
                                 channel_names, action)} :
          Leaves(r)

ComputeGChanFromTrace(n_fp, p_open_channels, channel_names, all_channel_names, action) ==
    /\ op = "init"
    /\ op' = "computeGChanFromTrace"
    /\ call' = [n_fp |-> n_fp, p_open_channels |-> p_open_channels,
                channel_names |-> channel_names,
                all_channel_names |-> all_channel_names, action |-> action]
    /\ \E r \in {computeGChanFromTrace(Tree, n_fp, p_open_channels, <<>>, One,
                                       channel_names, all_channel_names, NoneList,
                                       action)} :
          Leaves(r)

NextFit ==
    \/ \E freqs \in FitFreqArgs, e_eq \in EEqArgs, channel_names \in {<<"L">>, <<"CaT">>},
          all_channel_names \in {NoneList, <<"L", "CaT">>}, action \in FitActions :
          \E z_mat \in ZMatArgs(NumNodes(nodes), freqs) :
             ComputeGChanFromImpedance(z_mat, e_eq, freqs, channel_names,
                                       all_channel_names, action)
    \/ \E freqs \in FitFreqArgs, e_eq \in EEqArgs, channel_name \in {"L", "CaT"},
          sv \in {NoneStateVars, <<1, 2>>},
          all_channel_names \in {NoneList, <<"L", "CaT">>}, action \in FitActions :
          \E z_mat \in ZMatArgs(NumNodes(nodes), freqs) :
             ComputeGSingleChanFromImpedance(z_mat, e_eq, freqs, sv, channel_name,
                                             all_channel_names, action)
    \/ \E freqs \in FitFreqArgs, e_eq \in EEqArgs, ion \in {"ca", "k"},
          sv_s \in {DefaultSvs(<<"CaT">>), <<<<1, 2>>>>}, action \in FitActions :
          \E z_mat \in ZMatArgs(NumNodes(nodes), freqs) :
             ComputeConcMech(z_mat, e_eq, freqs, ion, sv_s, <<"CaT">>, action)
    \/ \E n_fp \in 1 .. 2, p_open_channels \in {<<"L">>, <<"CaT">>},
          channel_names \in {NoneList, <<"L">>},
          all_channel_names \in {NoneList, <<"L", "CaT">>}, action \in FitActions :
          ComputeGChanFromTrace(n_fp, p_open_channels, channel_names,
                                all_channel_names, action)

SpecFit == InitFit /\ [][NextFit]_vars

-----------------------------------------------------------------------------
(* Specification SpecIdem: a triple stored once at its weight, and the same  *)
(* triple stored twice at half its weight, each followed by runFit           *)

\* the tree an operation left
AsTree(r) == [nodes |-> r.nodes, channel_storage |-> r.channel_storage,
              fit_data |-> r.fit_data]

\* _fitResAction('store', ...) of a triple, then runFit
storeOnceRunFit(t, mat_feature, vec_target, weight, family) ==
    runFit(AsTree(fitResAction(t, "store", mat_feature, vec_target, weight,
                               family.capacitance, family.kwargs)))

\* _fitResAction('store', ...) of a triple, twice, then runFit
storeTwiceRunFit(t, mat_feature, vec_target, weight, family) ==
    storeOnceRunFit(AsTree(fitResAction(t, "store", mat_feature, vec_target, weight,
                                        family.capacitance, family.kwargs)),
                    mat_feature, vec_target, weight, family)

\* the families of the idempotence specification: the leak conductance and
\* the capacitance
IdemFamilies == {[kwargs |-> Kwargs(<<"L">>, None), capacitance |-> FALSE],
                 [kwargs |-> NoKwargs, capacitance |-> TRUE]}

\* the triples stored alongside
OtherTriples ==
    {[mat_feature |-> <<<<One>>>>, vec_target |-> <<R(v)>>, weight |-> R(w)] :
        v \in {0, 1, 3}, w \in {1, 2}}

\* the triples stored once or twice: the weight is the full one
IdemTriples ==
    {[mat_feature |-> <<<<R(m)>>>>, vec_target |-> <<R(v)>>, weight |-> R(w)] :
        m \in {1, 2}, v \in {1, 2, 3}, w \in {2, 4}}

\* the family fd is tagged with, if any
HasFamily(fd, family) ==
    /\ family.capacitance = fd.c
    /\ fd.ion = ""
    /\ fd.channel_names = (IF family.capacitance THEN <<>> ELSE family.kwargs.channel_names)

InitIdem ==
    /\ nodes \in {ns \in FitTrees(MaxAccNodes) :
                    \A i \in DOMAIN ns : "CaT" \in DOMAIN ns[i].currents}
    /\ channel_storage = InitChannelStorage(nodes)
    /\ phys_tree = None
    /\ fit_data \in {IdleFitData} \cup
          {fitResAction([nodes |-> nodes, channel_storage |-> channel_storage,
                         fit_data |-> IdleFitData],
                        "store", o.mat_feature, o.vec_target, o.weight,
                        family.capacitance, family.kwargs).fit_data :
              o \in OtherTriples, family \in IdemFamilies}
    /\ op = "init" /\ call = None /\ res = "ok" /\ ret = None

\* both sequences of calls applied to the tree of the current state: the tree
\* is left as the single store at full weight leaves it, and ret holds the
\* nodes that the two stores at half the weight leave
StoreRunFit(triple, family) ==
    /\ op = "init"
    /\ fit_data = IdleFitData \/ HasFamily(fit_data, family)
    /\ op' = "storeRunFit"
    /\ call' = [mat_feature |-> triple.mat_feature, vec_target |-> triple.vec_target,
                weight |-> triple.weight, capacitance |-> family.capacitance,
                kwargs |-> family.kwargs]
    /\ \E once \in {storeOnceRunFit(Tree, triple.mat_feature, triple.vec_target,
                                    triple.weight, family)},
          twice \in {storeTwiceRunFit(Tree, triple.mat_feature, triple.vec_target,
                                      RDiv(triple.weight, R(2)), family)} :
          /\ nodes' = once.nodes
          /\ channel_storage' = once.channel_storage
          /\ UNCHANGED phys_tree
          /\ fit_data' = once.fit_data
          /\ res' = IF once.res = "ok" THEN twice.res ELSE once.res
          /\ ret' = twice.nodes

NextIdem == \E triple \in IdemTriples, family \in IdemFamilies : StoreRunFit(triple, family)

SpecIdem == InitIdem /\ [][NextIdem]_vars

-----------------------------------------------------------------------------
(* Specification SpecBatch: one call of computeGMC, computeGM or             *)
(* computeGMSingleChan on a tree as the fitter builds it                     *)

\* the trees of the batch fits: the root's g_c is 0, the other coupling
\* conductances and the leak conductances are positive
BatchTrees(maxN) ==
    UNION {{MakeTree(N, p, l, 0, g, ch) :
                p \in ParentVectors(N), l \in LocInds(N), g \in {1, 2}, ch \in BOOLEAN} :
           N \in 1 .. maxN}

\* the sides of the impedance matrices handed to a tree of N nodes: too
\* small, right, too large
ZSides(N) == {K \in {N - 1, N, N + 1} : K >= 1}

\* the lists of stacks of impedance matrices, over the frequencies freqs
ZStackLists(N, freqs) ==
    {<<[o \in DOMAIN freqs |-> ZMat(K, a)]>> : K \in ZSides(N), a \in {1, 2}}
        \cup {<<[o \in DOMAIN freqs |-> ZMat(N, 1)], [o \in DOMAIN freqs |-> ZMat(N, 2)]>>}

\* the lists of impedance matrices at frequency zero
ZMatLists(N) ==
    {<<ZMat(K, a)>> : K \in ZSides(N), a \in {1, 2}} \cup {<<ZMat(N, 1), ZMat(N, 2)>>}

\* the tree's own impedance matrix at frequency zero with the leak alone
OwnImpedance(ns, cs) == calcImpedanceMatrix(ns, cs, <<0>>, TRUE, <<"L">>, "locs", FALSE).ret

BatchEEqArgs == {NoEEqs, EEqs(<<-75>>), EEqs(<<-75, -65>>)}
BatchWeightArgs ==
    {NoWeights, [form |-> "array", w |-> <<R(4)>>], [form |-> "list", w |-> <<One, R(4)>>],
     [form |-> "tuple", w |-> <<R(4), One>>], [form |-> "float", w |-> <<R(4)>>]}

InitBatch ==
    /\ nodes \in BatchTrees(MaxFitNodes)
    /\ channel_storage = InitChannelStorage(nodes)
    /\ phys_tree = None
    /\ fit_data = IdleFitData
    /\ op = "init" /\ call = None /\ res = "ok" /\ ret = None

ComputeGMC(z_mat_arg, e_eqs) ==
    /\ op = "init"
    /\ op' = "computeGMC"
    /\ call' = [z_mat_arg |-> z_mat_arg, ndim |-> 2, e_eqs |-> e_eqs, w_e_eqs |-> NoWeights,
                channel_names |-> <<"L">>, return_matrices |-> FALSE]
    /\ \E r \in {computeGMC(Tree, z_mat_arg, e_eqs, <<"L">>)} : Leaves(r)

\* a solve by la.lstsq is modelled for one fit channel
ComputeGM(z_mat_arg, e_eqs, freqs, w_e_eqs, channel_names, other_channel_names, return_matrices) ==
    /\ op = "init"
    /\ return_matrices \/ Len(GMChannelNames(channel_storage, channel_names)) = 1
    /\ w_e_eqs.form = "float" => e_eqs.given
    /\ op' = "computeGM"
    /\ call' = [z_mat_arg |-> z_mat_arg, ndim |-> 3, e_eqs |-> e_eqs, freqs |-> freqs,
                w_e_eqs |-> w_e_eqs, channel_names |-> channel_names,
                other_channel_names |-> other_channel_names,
                return_matrices |-> return_matrices]
    /\ \E r \in {computeGM(Tree, z_mat_arg, e_eqs, freqs, w_e_eqs, channel_names,
                           other_channel_names, return_matrices)} : Leaves(r)

ComputeGMSingleChan(z_mat_arg, e_eqs, freqs, w_e_eqs, channel_name, return_matrices) ==
    /\ op = "init"
    /\ w_e_eqs.form = "float" => e_eqs.given
    /\ op' = "computeGMSingleChan"
    /\ call' = [z_mat_arg |-> z_mat_arg, ndim |-> 3, e_eqs |-> e_eqs, freqs |-> freqs,
                w_e_eqs |-> w_e_eqs, channel_names |-> <<channel_name>>,
                other_channel_names |-> <<"L">>, return_matrices |-> return_matrices]
    /\ \E r \in {computeGMSingleChan(Tree, z_mat_arg, e_eqs, freqs, w_e_eqs, channel_name,
                                     return_matrices)} : Leaves(r)

NextBatch ==
    \/ /\ op = "init"
       /\ \E z_mat_arg \in ZMatLists(NumNodes(nodes))
                              \cup {<<OwnImpedance(nodes, channel_storage)>>},
             e_eqs \in BatchEEqArgs : ComputeGMC(z_mat_arg, e_eqs)
    \/ \E freqs \in {<<0>>, <<0, 0>>}, zfreqs \in {<<0>>} :
       \E z_mat_arg \in ZStackLists(NumNodes(nodes), zfreqs), e_eqs \in BatchEEqArgs,
          w_e_eqs \in BatchWeightArgs, channel_names \in {NoneList, <<"L">>, <<"CaT">>},
          other_channel_names \in {NoneList, <<"SK">>}, return_matrices \in BOOLEAN :
          ComputeGM(z_mat_arg, e_eqs, freqs, w_e_eqs, channel_names, other_channel_names,
                    return_matrices)
    \/ \E freqs \in {<<0>>, <<0, 0>>}, zfreqs \in {<<0>>} :
       \E z_mat_arg \in ZStackLists(NumNodes(nodes), zfreqs), e_eqs \in BatchEEqArgs,
          w_e_eqs \in BatchWeightArgs, channel_name \in {"L", "CaT"},
          return_matrices \in BOOLEAN :
          ComputeGMSingleChan(z_mat_arg, e_eqs, freqs, w_e_eqs, channel_name, return_matrices)

SpecBatch == InitBatch /\ [][NextBatch]_vars
-----------------------------------------------------------------------------
(* The Newton iteration of the capacitance fit: computeCv2 builds the trace *)
(* equations and calls _sn_(c_0); _sn_ calls itself once per Newton step.   *)
(* The iterates are numbered: c_0 is the start vector and c_k the vector    *)
(* after k steps.  What a step computes depends on the start vector and on  *)
(* the target eigenvalues, so its outcome is an input of the step.          *)

\* the deepest recursion of _sn_ that the model follows
MaxDepth == 120

\* outcomes of c_new = c_prev - np.linalg.solve(j(c_prev), f(c_prev)):
\* the largest coordinate update is below atol, is not below atol, is nan,
\* or the Jacobian is singular and np.linalg.solve raises
NewtonSteps == {"small", "large", "nan", "singular"}

\* np.max(np.abs(c_new - c_prev)) < atol; a comparison with nan is False
updateBelowAtol(step) == step = "small"

\* the stopping test without the cap on n_iter
snStopsUncapped(step, n_iter) == updateBelowAtol(step)

\* the stopping test of _sn_
snStops(step, n_iter) == updateBelowAtol(step) \/ n_iter > 100

\* one invocation _sn_(c_prev, n_iter = n_iter) up to its return, its raise
\* or its recursive call
sn(c_prev, n_iter, step) ==
    IF step = "singular"
    THEN [res |-> "LinAlgError", ret |-> None, c_prev |-> c_prev, n_iter |-> n_iter]
    ELSE IF snStops(step, n_iter)
    THEN [res |-> "ok", ret |-> c_prev + 1, c_prev |-> c_prev, n_iter |-> n_iter]
    ELSE [res |-> "running", ret |-> None, c_prev |-> c_prev + 1, n_iter |-> n_iter + 1]

\* computeCv2 has called self._sn_(c_0)
InitNewton ==
    /\ nodes \in BatchTrees(MaxFitNodes)
    /\ channel_storage = InitChannelStorage(nodes)
    /\ phys_tree = None
    /\ fit_data = IdleFitData
    /\ op = "_sn_" /\ call = [c_prev |-> 0, n_iter |-> 0, update |-> None]
    /\ res = "running" /\ ret = None

SnStep(step) ==
    /\ op = "_sn_" /\ res = "running"
    /\ \E r \in {sn(call.c_prev, call.n_iter, step)} :
        /\ r.n_iter <= MaxDepth
        /\ call' = [c_prev |-> r.c_prev, n_iter |-> r.n_iter, update |-> step]
        /\ res' = r.res
        /\ ret' = r.ret
    /\ UNCHANGED <<nodes, channel_storage, fit_data, phys_tree, op>>

\* call.update is the outcome of the latest Newton step (None before the first)

\* the step ends the iteration: return c_new
SnReturn == \E step \in NewtonSteps : SnStep(step) /\ res' = "ok"

\* the step is followed by self._sn_(c_new, atol=atol, n_iter=n_iter+1)
SnRecurse == \E step \in NewtonSteps : SnStep(step) /\ res' = "running"

\* np.linalg.solve raises on a singular Jacobian
SnRaise == \E step \in NewtonSteps : SnStep(step) /\ res' = "LinAlgError"

NextNewton == SnReturn \/ SnRecurse \/ SnRaise

\* the interpreter keeps executing a call that has not ended
SpecNewton == InitNewton /\ [][NextNewton]_vars /\ WF_vars(NextNewton)

-----------------------------------------------------------------------------
(* The leak fit of a PhysTree (neat/trees/phystree.py).  A PhysNode has the *)
(* membrane capacitance c_m, the currents {name: [g_max, e_rev]} and the    *)
(* equilibrium potential v_ep; the key "L" is written by the leak fit.      *)

\* the largest PhysTree of the leak specification
MaxLeakNodes == 2

\* floating-point infinities, next to NaN
Inf == <<1, 0>>
NegInf == <<-1, 0>>
Finite(x) == x[2] # 0

\* PhysNode.__init__ followed by PhysNode._addCurrent for each channel;
\* r_a is the value PhysTree.__init__ sets
PhysNode(index, c_m, currents) ==
    [index |-> index, c_m |-> c_m, r_a |-> <<1, 10000>>, g_shunt |-> Zero,
     currents |-> currents, concmechs |-> [i \in {} |-> Zero],
     v_ep |-> -75, conc_eps |-> [i \in {} |-> Zero]]

\* the channels fitLeakCurrent sums over: set(self.currents.keys()) - set('L')
LeakFitChannels(node) == (DOMAIN node.currents) \ {"L"}

\* gsum of PhysNode.fitLeakCurrent: the open conductance at e_eq_target
leakGSum(node, e_eq_target) ==
    SumOver(LeakFitChannels(node),
            [c \in LeakFitChannels(node) |->
                RMul(node.currents[c][1], computePOpen(c, e_eq_target, NoneStateVars))])

\* i_eq of PhysNode.fitLeakCurrent: the channel current at e_eq_target
leakIEq(node, e_eq_target) ==
    SumOver(LeakFitChannels(node),
            [c \in LeakFitChannels(node) |->
                RMul(RMul(node.currents[c][1], computePOpen(c, e_eq_target, NoneStateVars)),
                     RSub(node.currents[c][2], R(e_eq_target)))])

\* self.c_m / (tau_m_target*1e-3)
requestedConductance(node, tau_m_target) == RDiv(node.c_m, Rat(tau_m_target, 1000))

\* the test of the warning branch: self.c_m / (tau_m_target*1e-3) < gsum
timeScaleUnreachable(node, e_eq_target, tau_m_target) ==
    RLt(requestedConductance(node, tau_m_target), leakGSum(node, e_eq_target))

\* tau_m_target as the two branches leave it (in s)
leakTimeScale(node, e_eq_target, tau_m_target) ==
    IF timeScaleUnreachable(node, e_eq_target, tau_m_target)
    THEN RDiv(node.c_m, RAdd(leakGSum(node, e_eq_target), R(20)))
    ELSE Rat(tau_m_target, 1000)

\* g_l = self.c_m / tau_m_target - gsum
leakConductance(node, e_eq_target, tau_m_target) ==
    RSub(RDiv(node.c_m, leakTimeScale(node, e_eq_target, tau_m_target)),
         leakGSum(node, e_eq_target))

\* e_l = e_eq_target - i_eq / g_l with numpy floats and g_l = 0
leakReversalAtZero(i_eq) ==
    IF i_eq = Zero THEN NaN ELSE IF i_eq[1] > 0 THEN NegInf ELSE Inf

\* PhysNode.fitLeakCurrent.  With g_l = 0 the division i_eq / g_l raises
\* ZeroDivisionError when the open probabilities are Python floats and gives
\* nan or an infinity (with a RuntimeWarning) when they are numpy floats.
fitLeakCurrentNode(node, e_eq_target, tau_m_target, numpy_floats) ==
    LET s == [gsum |-> leakGSum(node, e_eq_target), i_eq |-> leakIEq(node, e_eq_target),
              g_l |-> leakConductance(node, e_eq_target, tau_m_target),
              warned |-> timeScaleUnreachable(node, e_eq_target, tau_m_target)]
    IN  IF s.g_l = Zero /\ ~numpy_floats
        THEN [res |-> "ZeroDivisionError", node |-> node]
        ELSE [res |-> IF s.warned \/ s.g_l = Zero THEN "warning" ELSE "ok",
              node |-> [node EXCEPT
                  !.currents = [c \in (DOMAIN node.currents) \cup {"L"} |->
                      IF c # "L" THEN node.currents[c]
                      ELSE <<s.g_l,
                             IF s.g_l = Zero THEN leakReversalAtZero(s.i_eq)
                             ELSE RSub(R(e_eq_target), RDiv(s.i_eq, s.g_l))>>],
                  !.v_ep = e_eq_target]]

\* the loop of PhysTree.fitLeakCurrent from node k on (node_arg = None)
RECURSIVE fitLeakCurrentLoop(_, _, _, _, _, _)
fitLeakCurrentLoop(ns, k, e_eq_target, tau_m_target, numpy_floats, warned) ==
    IF k = NumNodes(ns) THEN [res |-> IF warned THEN "warning" ELSE "ok", nodes |-> ns]
    ELSE IF ~(tau_m_target > 0) THEN [res |-> "AssertionError", nodes |-> ns]
    ELSE LET r == fitLeakCurrentNode(ns[k], e_eq_target, tau_m_target, numpy_floats)
         IN  IF r.res \notin {"ok", "warning"} THEN [res |-> r.res, nodes |-> ns]
             ELSE fitLeakCurrentLoop([ns EXCEPT ![k] = r.node], k + 1, e_eq_target,
                                     tau_m_target, numpy_floats,
                                     warned \/ r.res = "warning")

\* PhysTree.fitLeakCurrent with float targets
fitLeakCurrent(ns, e_eq_target, tau_m_target, numpy_floats) ==
    fitLeakCurrentLoop(ns, 0, e_eq_target, tau_m_target, numpy_floats, FALSE)

\* the nodes of the leak specification: channels added with a g_max >= 0
LeakCurrents ==
    {[c \in S |-> <<R(IF c = "CaT" THEN g ELSE 100), R(E_REV_DICT(c))>>] :
        S \in SUBSET {"CaT", "SK"}, g \in {0, 200, 400}}

LeakNodes(index) == {PhysNode(index, R(c_m), cur) : c_m \in {1, 2}, cur \in LeakCurrents}

LeakTrees ==
    UNION {{t \in [0 .. (N - 1) -> UNION {LeakNodes(i) : i \in 0 .. (N - 1)}] :
                \A i \in 0 .. (N - 1) : t[i].index = i} : N \in 1 .. MaxLeakNodes}

\* the tree-level state of a PhysTree without a computational tree
OriginalTree == [treetype |-> "original", computational_root |-> None, ions |-> {}]

\* originalTreeModificationDecorator: treetype is set before the call; the
\* computational root is removed after it, which a raise in the call skips
originalTreeModificationDecorator(pt, returned, ions) ==
    [treetype |-> "original",
     computational_root |-> IF returned THEN None ELSE pt.computational_root,
     ions |-> ions]

InitLeak ==
    /\ nodes \in LeakTrees
    /\ channel_storage = UNION {LeakFitChannels(nodes[i]) : i \in DOMAIN nodes}
    /\ phys_tree = OriginalTree
    /\ fit_data = IdleFitData
    /\ op = "init" /\ call = None /\ res = "ok" /\ ret = None

FitLeakCurrent(e_eq_target, tau_m_target) ==
    /\ op = "init"
    /\ \E numpy_floats \in BOOLEAN :
       \E r \in {fitLeakCurrent(nodes, e_eq_target, tau_m_target, numpy_floats)} :
          /\ nodes' = r.nodes
          /\ res' = r.res
          /\ phys_tree' = originalTreeModificationDecorator(
                              phys_tree, r.res \in {"ok", "warning"}, phys_tree.ions)
    /\ op' = "fitLeakCurrent"
    /\ call' = [e_eq_target |-> e_eq_target, tau_m_target |-> tau_m_target]
    /\ UNCHANGED <<channel_storage, fit_data, ret>>

NextLeak == \E e_eq_target \in {-75, -65}, tau_m_target \in {0, 5, 10, 20} :
                FitLeakCurrent(e_eq_target, tau_m_target)

SpecLeak == InitLeak /\ [][NextLeak]_vars

-----------------------------------------------------------------------------
(* Specification SpecNode: the operations of one CompartmentNode (channels,  *)
(* expansion points, leak reversal) on the nodes of a tree                  *)

\* the largest tree of the node specification
MaxNodeNodes == 2

\* the state variables an expansion point is set to
ExpansionPointArgs == {NoneStateVars, <<3, 4>>}

\* addCurrent without the test on the channel name
addCurrentUnguarded(node, cs, channel_name) ==
    [node |-> [node EXCEPT
                 !.currents = Put(@, channel_name, <<Zero, E_REV_DICT(channel_name)>>),
                 !.expansion_points = Put(@, channel_name, NoneStateVars)],
     channel_storage |-> cs \cup {channel_name}]

\* CompartmentNode.addCurrent with e_rev = None and the tree's channel_storage
addCurrent(node, cs, channel_name) ==
    IF channel_name = "L" THEN [node |-> node, channel_storage |-> cs]
    ELSE [node |-> [node EXCEPT
                      !.currents = Put(@, channel_name, <<Zero, E_REV_DICT(channel_name)>>),
                      !.expansion_points = Put(@, channel_name, NoneStateVars)],
          channel_storage |-> cs \cup {channel_name}]

\* the channel currents of getITot at potential v, each channel linearised
\* around its expansion point
channelCurrents(node, v) ==
    SumOver((DOMAIN node.currents) \ {"L"},
            [c \in (DOMAIN node.currents) \ {"L"} |->
                RMul(RMul(node.currents[c][1],
                          computePOpen(c, v, node.expansion_points[c])),
                     R(v - node.currents[c][2]))])

\* CompartmentNode.getITot with channel_names = None and no p_open_channels
getITot(node, v) ==
    RAdd(RMul(node.currents["L"][1], RSub(R(v), node.currents["L"][2])),
         channelCurrents(node, v))

\* i_eq of CompartmentNode.fitEL: the open probabilities are computed with
\* computePOpen(self.e_eq), the asymptotic state variables
fitELCurrent(node) ==
    SumOver((DOMAIN node.currents) \ {"L"},
            [c \in (DOMAIN node.currents) \ {"L"} |->
                RMul(RMul(node.currents[c][1],
                          computePOpen(c, node.e_eq, NoneStateVars)),
                     R(node.currents[c][2] - node.e_eq))])

\* CompartmentNode.fitEL on a node with a leak conductance other than zero
fitEL(node) ==
    [node EXCEPT !.currents =
        [@ EXCEPT !["L"] =
            <<@[1], RSub(R(node.e_eq), RDiv(fitELCurrent(node), @[1]))>>]]

\* the trees of the node specification: the leak reversal is held as a
\* rational number, the form fitEL stores
NodeTrees ==
    {[i \in DOMAIN t |-> [t[i] EXCEPT !.currents =
                            [@ EXCEPT !["L"] = <<@[1], R(@[2])>>]]] :
        t \in BatchTrees(MaxNodeNodes)}

InitNode ==
    /\ nodes \in NodeTrees
    /\ channel_storage = InitChannelStorage(nodes)
    /\ phys_tree = None
    /\ fit_data = IdleFitData
    /\ op = "init" /\ call = None /\ res = "ok" /\ ret = None

NodeOps == {"init", "addCurrent", "setExpansionPoint", "fitEL", "getITot"}

\* tree[index].addCurrent(channel_name, channel_storage=tree.channel_storage)
AddCurrent(index, channel_name) ==
    /\ op \in NodeOps
    /\ index \in DOMAIN nodes
    /\ \E r \in {addCurrent(nodes[index], channel_storage, channel_name)} :
        /\ nodes' = [nodes EXCEPT ![index] = r.node]
        /\ channel_storage' = r.channel_storage
    /\ op' = "addCurrent"
    /\ call' = [index |-> index, channel_name |-> channel_name]
    /\ res' = "ok" /\ ret' = None
    /\ UNCHANGED <<fit_data, phys_tree>>

\* tree[index].setExpansionPoint(channel_name, statevar); KeyError is not
\* raised for a channel the node lacks, the point is stored all the same
SetExpansionPoint(index, channel_name, statevar) ==
    /\ op \in NodeOps
    /\ index \in DOMAIN nodes
    /\ nodes' = [nodes EXCEPT ![index] = setExpansionPoint(@, channel_name, statevar)]
    /\ op' = "setExpansionPoint"
    /\ call' = [index |-> index, channel_name |-> channel_name]
    /\ res' = "ok" /\ ret' = None
    /\ UNCHANGED <<channel_storage, fit_data, phys_tree>>

\* tree[index].fitEL(channel_storage=tree.channel_storage)
FitEL(index) ==
    /\ op \in NodeOps
    /\ index \in DOMAIN nodes
    /\ nodes[index].currents["L"][1] # Zero
    /\ nodes' = [nodes EXCEPT ![index] = fitEL(@)]
    /\ op' = "fitEL"
    /\ call' = [index |-> index, channel_name |-> None]
    /\ res' = "ok" /\ ret' = None
    /\ UNCHANGED <<channel_storage, fit_data, phys_tree>>

\* tree[index].getITot(channel_storage=tree.channel_storage)
GetITot(index) ==
    /\ op \in NodeOps \ {"init", "getITot"}
    /\ index \in DOMAIN nodes
    /\ op' = "getITot"
    /\ call' = [index |-> index, channel_name |-> None]
    /\ res' = "ok"
    /\ ret' = getITot(nodes[index], nodes[index].e_eq)
    /\ UNCHANGED <<nodes, channel_storage, fit_data, phys_tree>>

NextNode ==
    \/ \E index \in 0 .. (MaxNodeNodes - 1), channel_name \in {"L", "CaT", "SK"} :
            AddCurrent(index, channel_name)
    \/ \E index \in 0 .. (MaxNodeNodes - 1), channel_name \in {"CaT", "SK"},
          statevar \in ExpansionPointArgs : SetExpansionPoint(index, channel_name, statevar)
    \/ \E index \in 0 .. (MaxNodeNodes - 1) : FitEL(index)
    \/ \E index \in 0 .. (MaxNodeNodes - 1) : GetITot(index)
    \/ op = "init" /\ CalcConductanceMatrix("tree")
    \/ op = "init" /\ \E channel_names \in ChannelNameArgs :
            CalcSystemMatrix([freqs |-> <<0>>, no_freq_dim |-> TRUE], channel_names,
                             TRUE, FALSE, "tree", FALSE)
    \/ op = "init" /\ ComputeGMC(<<OwnImpedance(nodes, channel_storage)>>, NoEEqs)
    \/ op = "init" /\ ComputeGM(<<[o \in {1} |-> ZMat(NumNodes(nodes), 1)]>>, EEqs(<<-75>>),
                                 <<0>>, NoWeights, <<"CaT">>, NoneList, FALSE)

SpecNode == InitNode /\ [][NextNode]_vars

-----------------------------------------------------------------------------
(* Specification SpecPhys: the operations of PhysTree that change the       *)
(* parameters of the nodes, each wrapped by                                 *)
(* originalTreeModificationDecorator.  node_arg is None: the loop visits    *)
(* every node in the order of node.index.  A distribution argument is a     *)
(* float, or a dict that gives one value to the node indices it has.        *)

\* the largest tree of the PhysTree specification
MaxPhysNodes == 2

Float(x) == [kind |-> "float", keys |-> {}, val |-> x]
Dict(keys, x) == [kind |-> "dict", keys |-> keys, val |-> x]
\* an argument that is no float, dict or callable, e.g. an int
NoDistr(x) == [kind |-> "int", keys |-> {}, val |-> x]

\* PhysTree._distr2Float
distr2Float(distr, node) ==
    IF distr.kind = "float" THEN [res |-> "ok", val |-> distr.val]
    ELSE IF distr.kind = "dict"
    THEN (IF node.index \in distr.keys THEN [res |-> "ok", val |-> distr.val]
          ELSE [res |-> "KeyError", val |-> None])
    ELSE [res |-> "TypeError", val |-> None]

Returned(r) == r.res \in {"ok", "warning"}

\* for node in self._convertNodeArgToNodes(None): steps[i] is what the body
\* does to node i; the loop ends at the first node whose body raises
forEachNode(ns, steps) ==
    LET failed == {i \in DOMAIN ns : ~Returned(steps[i])}
        stop == IF failed = {} THEN NumNodes(ns)
                ELSE CHOOSE i \in failed : \A j \in failed : i <= j
    IN  [res |-> IF failed # {} THEN steps[stop].res
                 ELSE IF \E i \in DOMAIN ns : steps[i].res = "warning" THEN "warning"
                 ELSE "ok",
         nodes |-> [i \in DOMAIN ns |-> IF i < stop THEN steps[i].node ELSE ns[i]]]

\* the body of a loop that reads one distribution and hands the value to a
\* method of the node
withFloat(distr, node, changed) ==
    IF distr2Float(distr, node).res = "ok" THEN [res |-> "ok", node |-> changed]
    ELSE [res |-> distr2Float(distr, node).res, node |-> node]

\* PhysTree.setVEP and PhysNode.setVEP
setVEP(t, v_ep_distr) ==
    forEachNode(t.nodes, [i \in DOMAIN t.nodes |->
        withFloat(v_ep_distr, t.nodes[i], [t.nodes[i] EXCEPT !.v_ep = v_ep_distr.val])])
    @@ [channel_storage |-> t.channel_storage, ions |-> t.phys_tree.ions]

\* PhysTree.setConcEP and PhysNode.setConcEP
setConcEP(t, ion, conc_eq_distr) ==
    forEachNode(t.nodes, [i \in DOMAIN t.nodes |->
        withFloat(conc_eq_distr, t.nodes[i],
                  [t.nodes[i] EXCEPT !.conc_eps = Put(@, ion, conc_eq_distr.val)])])
    @@ [channel_storage |-> t.channel_storage, ions |-> t.phys_tree.ions]

\* PhysTree.setPhysiology and PhysNode.setPhysiology with g_s_distr = None and
\* a float r_a_distr
setPhysiology(t, c_m_distr, r_a) ==
    forEachNode(t.nodes, [i \in DOMAIN t.nodes |->
        withFloat(c_m_distr, t.nodes[i],
                  [t.nodes[i] EXCEPT !.c_m = c_m_distr.val, !.r_a = r_a, !.g_shunt = Zero])])
    @@ [channel_storage |-> t.channel_storage, ions |-> t.phys_tree.ions]

\* PhysNode._addCurrent
addCurrentAtNode(node, channel_name, g_max, e_rev) ==
    [node EXCEPT !.currents = Put(@, channel_name, <<g_max, e_rev>>)]

\* PhysTree.setLeakCurrent with a float e_l_distr
setLeakCurrent(t, g_l_distr, e_l) ==
    forEachNode(t.nodes, [i \in DOMAIN t.nodes |->
        withFloat(g_l_distr, t.nodes[i],
                  addCurrentAtNode(t.nodes[i], "L", g_l_distr.val, e_l))])
    @@ [channel_storage |-> t.channel_storage, ions |-> t.phys_tree.ions]

\* PhysTree.addCurrent with a float e_rev_distr; is_channel is
\* isinstance(channel, ionchannels.IonChannel).  The channel is stored in
\* channel_storage before the loop over the nodes.
physAddCurrent(t, is_channel, channel_name, g_max_distr, e_rev) ==
    IF ~is_channel
    THEN [res |-> "IOError", nodes |-> t.nodes, channel_storage |-> t.channel_storage,
          ions |-> t.phys_tree.ions]
    ELSE forEachNode(t.nodes, [i \in DOMAIN t.nodes |->
            withFloat(g_max_distr, t.nodes[i],
                      addCurrentAtNode(t.nodes[i], channel_name, g_max_distr.val, e_rev))])
         @@ [channel_storage |-> t.channel_storage \cup {channel_name},
             ions |-> t.phys_tree.ions]

\* PhysNode.addConcMech: params is {'gamma': .., 'tau': ..} or something else
addConcMechAtNode(node, ion, params_match) ==
    IF params_match
    THEN [res |-> "ok",
          node |-> [node EXCEPT !.concmechs = Put(@, ion, [gamma |-> One, tau |-> One])]]
    ELSE [res |-> "warning", node |-> node]

\* PhysTree.addConcMech
physAddConcMech(t, ion, params_match) ==
    forEachNode(t.nodes, [i \in DOMAIN t.nodes |->
                            addConcMechAtNode(t.nodes[i], ion, params_match)])
    @@ [channel_storage |-> t.channel_storage, ions |-> t.phys_tree.ions \cup {ion}]

\* PhysNode.getGTot over all the node's currents at v
physGetGTot(node, v) ==
    SumOver(DOMAIN node.currents,
            [c \in DOMAIN node.currents |->
                IF c = "L" THEN node.currents[c][1]
                ELSE RMul(node.currents[c][1], computePOpen(c, v, NoneStateVars))])

\* PhysNode.asPassiveMembrane with channel_names = None and v = None: every
\* channel of the node is passified, so the current of the other channels is
\* 0. and e_l = v + 0. / g_l.  With g_l = 0 the division raises
\* ZeroDivisionError for a Python float g_l; a numpy float g_l (the node has a
\* channel and its open probability is a numpy float) gives nan.
asPassiveMembraneAtNode(node, numpy_floats) ==
    LET g_l == physGetGTot(node, node.v_ep)
    IN  IF g_l = Zero /\ ~(numpy_floats /\ LeakFitChannels(node) # {})
        THEN [res |-> "ZeroDivisionError", node |-> node]
        ELSE [res |-> IF g_l = Zero THEN "warning" ELSE "ok",
              node |-> [node EXCEPT !.currents =
                          [c \in {"L"} |-> <<g_l, IF g_l = Zero THEN NaN
                                                  ELSE R(node.v_ep)>>]]]

\* PhysTree._resetChannelStorage
resetChannelStorage(ns) == UNION {LeakFitChannels(ns[i]) : i \in DOMAIN ns}

\* PhysTree.asPassiveMembrane with channel_names = None; a raise in the loop
\* skips _resetChannelStorage
physAsPassiveMembrane(t, numpy_floats) ==
    LET done == forEachNode(t.nodes, [i \in DOMAIN t.nodes |->
                                asPassiveMembraneAtNode(t.nodes[i], numpy_floats)])
    IN  done @@ [channel_storage |-> IF Returned(done) THEN resetChannelStorage(done.nodes)
                                     ELSE t.channel_storage,
                 ions |-> t.phys_tree.ions]

\* the PhysTree of the current state
PhysTreeNow == [nodes |-> nodes, channel_storage |-> channel_storage, phys_tree |-> phys_tree]

\* the state a decorated operation with body result r leaves
Decorated(r) ==
    /\ nodes' = r.nodes
    /\ channel_storage' = r.channel_storage
    /\ phys_tree' = originalTreeModificationDecorator(phys_tree, Returned(r), r.ions)
    /\ res' = r.res
    /\ UNCHANGED <<fit_data, ret>>

\* a tree with and without a computational tree (set by setCompTree), the
\* computational tree being the active one or not
PhysTreeStates ==
    {OriginalTree,
     [treetype |-> "original", computational_root |-> "root", ions |-> {}],
     [treetype |-> "computational", computational_root |-> "root", ions |-> {}]}

InitPhys ==
    /\ nodes \in LeakTrees
    /\ channel_storage = UNION {LeakFitChannels(nodes[i]) : i \in DOMAIN nodes}
    /\ phys_tree \in PhysTreeStates
    /\ fit_data = IdleFitData
    /\ op = "init" /\ call = None /\ res = "ok" /\ ret = None

\* the distributions of the specification: a float, a dict for node 0 only,
\* a dict for both nodes, an int
Distrs(x) == {Float(x), Dict({0}, x), Dict({0, 1}, x), NoDistr(x)}

SetVEP(v_ep_distr) ==
    /\ op = "init"
    /\ op' = "setVEP" /\ call' = [distr |-> v_ep_distr]
    /\ Decorated(setVEP(PhysTreeNow, v_ep_distr))

SetConcEP(ion, conc_eq_distr) ==
    /\ op = "init"
    /\ op' = "setConcEP" /\ call' = [distr |-> conc_eq_distr]
    /\ Decorated(setConcEP(PhysTreeNow, ion, conc_eq_distr))

SetPhysiology(c_m_distr) ==
    /\ op = "init"
    /\ op' = "setPhysiology" /\ call' = [distr |-> c_m_distr]
    /\ Decorated(setPhysiology(PhysTreeNow, c_m_distr, <<1, 10000>>))

SetLeakCurrent(g_l_distr) ==
    /\ op = "init"
    /\ op' = "setLeakCurrent" /\ call' = [distr |-> g_l_distr]
    /\ Decorated(setLeakCurrent(PhysTreeNow, g_l_distr, R(-75)))

PhysAddCurrent(is_channel, channel_name, g_max_distr) ==
    /\ op = "init"
    /\ op' = "addCurrent" /\ call' = [distr |-> g_max_distr]
    /\ Decorated(physAddCurrent(PhysTreeNow, is_channel, channel_name, g_max_distr,
                                R(E_REV_DICT(channel_name))))

PhysAddConcMech(ion, params_match) ==
    /\ op = "init"
    /\ op' = "addConcMech" /\ call' = [distr |-> Float(None)]
    /\ Decorated(physAddConcMech(PhysTreeNow, ion, params_match))

AsPassiveMembrane ==
    /\ op = "init"
    /\ op' = "asPassiveMembrane" /\ call' = [distr |-> Float(None)]
    /\ \E numpy_floats \in BOOLEAN : Decorated(physAsPassiveMembrane(PhysTreeNow, numpy_floats))

NextPhys ==
    \/ \E d \in Distrs(-65) : SetVEP(d)
    \/ \E d \in Distrs(One) : SetConcEP("ca", d)
    \/ \E d \in Distrs(R(3)) : SetPhysiology(d)
    \/ \E d \in Distrs(R(5)) : SetLeakCurrent(d)
    \/ \E is_channel \in BOOLEAN, d \in Distrs(R(7)) : PhysAddCurrent(is_channel, "SK", d)
    \/ \E params_match \in BOOLEAN : PhysAddConcMech("ca", params_match)
    \/ \E e_eq_target \in {-75}, tau_m_target \in {0, 10} :
            FitLeakCurrent(e_eq_target, tau_m_target)
    \/ AsPassiveMembrane

SpecPhys == InitPhys /\ [][NextPhys]_vars

-----------------------------------------------------------------------------
(* CompartmentTree._calcConvolution on trees whose passive system matrix is *)
(* diagonal (no coupling), where la.eig is exact: the eigenvalues are the   *)
(* diagonal entries and the eigenvectors the unit vectors.                  *)

MaxConvNodes == 2
MaxConvSteps == 3

\* np.exp, by its series up to the second power
Exp(x) == RAdd(One, RAdd(x, RDiv(RMul(x, x), R(2))))

\* CompartmentTree.calcEigenvalues(indexing='tree') for a diagonal system matrix
calcEigenvalues(ns, cs) ==
    LET mat == calcSystemMatrix(ns, cs, <<0>>, TRUE, <<"L">>, FALSE, FALSE, "tree", FALSE).ret
    IN  [alphas |-> Computed([n \in Indices(ns) |->
                        RDiv(RDiv(mat[n][n], ns[n].ca), R(-1000))]),
         phimat |-> ComputedMat([l \in Indices(ns) |-> [n \in Indices(ns) |->
                        IF l = n THEN One ELSE Zero]]),
         phimat_inv |-> ComputedMat([n \in Indices(ns) |-> [k \in Indices(ns) |->
                        IF n = k THEN RDiv(One, RMul(ns[k].ca, R(1000))) ELSE Zero]])]

\* the propagators p0, p1, p2 and the steady-state factor p_ of one eigenmode
propagators(alpha, dt) ==
    LET p0 == Exp(RMul(alpha, dt))
        lin == RDiv(RSub(p0, One), RMul(RMul(alpha, alpha), dt))
    IN  [p0 |-> p0,
         p1 |-> RAdd(RDiv(R(-1), alpha), lin),
         p2 |-> RSub(RDiv(p0, alpha), lin),
         p_ |-> RDiv(R(-1), alpha)]

\* the loop with the terms of the two samples exchanged
convolveStepSwapped(p, convvar, inp, inp_prev) ==
    RAdd(RMul(p.p0, convvar), RAdd(RMul(p.p1, inp_prev), RMul(p.p2, inp)))

\* one pass of the loop over the input samples: the next value of convvar
convolveStep(p, convvar, inp, inp_prev) ==
    RAdd(RMul(p.p0, convvar), RAdd(RMul(p.p1, inp), RMul(p.p2, inp_prev)))

RECURSIVE convolve(_, _, _)
\* convres[0 .. t] of one eigenmode for the input series u (u[1] is inputs[0])
convolve(p, u, t) ==
    IF t = 1 THEN <<RMul(p.p_, u[1])>>
    ELSE LET before == convolve(p, u, t - 1)
         IN  Append(before, convolveStep(p, before[t - 1], u[t], u[t - 1]))

\* CompartmentTree._calcConvolution(dt, inputs): inputs[k][c] is the series of
\* input c at node k, the result [l][k][c] the series of the response at node l
calcConvolution(ns, cs, dt, inputs) ==
    LET eig == calcEigenvalues(ns, cs)
        mode(l, n, k, c) ==
            convolve(propagators(eig.alphas[n], dt),
                     [t \in DOMAIN inputs[k][c] |->
                         RMul(RMul(eig.phimat[l][n], eig.phimat_inv[n][k]), inputs[k][c][t])],
                     Len(inputs[k][c]))
    IN  [l \in Indices(ns) |-> [k \in Indices(ns) |-> [c \in DOMAIN inputs[k] |->
            Computed([t \in DOMAIN inputs[k][c] |->
                RSum([n \in 1 .. NumNodes(ns) |-> mode(l, n - 1, k, c)[t]])])]]]

\* trees without coupling, with capacitances 1 and 2 uS/ms
ConvTrees ==
    UNION {{[i \in 0 .. (N - 1) |->
                [MakeTree(N, p, [j \in 0 .. (N - 1) |-> j], 0, 0, FALSE)[i]
                    EXCEPT !.ca = ca[i]]] :
                p \in ParentVectors(N), ca \in [0 .. (N - 1) -> {One, R(2)}]} :
           N \in 1 .. MaxConvNodes}

\* time steps (ms) for which alpha*dt is -1/4, -1/2 or -1
ConvTimeSteps == {R(500), R(1000)}

\* input series of up to MaxConvSteps samples, one series per node
ConvSeries == UNION {[1 .. T -> {Zero, One, R(2)}] : T \in 2 .. MaxConvSteps}
ConvInputs(ns) == {[k \in Indices(ns) |-> <<s>>] : s \in ConvSeries}

InitConv ==
    /\ nodes \in ConvTrees
    /\ channel_storage = InitChannelStorage(nodes)
    /\ phys_tree = None
    /\ fit_data = IdleFitData
    /\ op = "init" /\ call = None /\ res = "ok" /\ ret = None

CalcConvolution(dt, inputs) ==
    /\ op = "init"
    /\ op' = "_calcConvolution"
    /\ call' = [dt |-> dt, inputs |-> inputs]
    /\ res' = "ok"
    /\ ret' = calcConvolution(nodes, channel_storage, dt, inputs)
    /\ UNCHANGED <<nodes, channel_storage, fit_data, phys_tree>>

NextConv == \E dt \in ConvTimeSteps : \E inputs \in ConvInputs(nodes) : CalcConvolution(dt, inputs)

SpecConv == InitConv /\ [][NextConv]_vars

-----------------------------------------------------------------------------
(* Specification SpecPack: the helpers that pack the conductances of a tree *)
(* into a vector, write a vector back and build the structure tensors       *)

MaxPackNodes == 3

\* a call of _toVecGMC
toVecGMCCall(ns, channel_names) ==
    IF lacksCurrent(ns, channel_names) THEN [res |-> "KeyError", ret |-> None]
    ELSE [res |-> "ok", ret |-> Computed(toVecGMC(ns, channel_names))]

\* a call of _toStructureTensorGMC: _toVecGMC is called first, and every node
\* that gets past it has the channels, so calcMembraneConductanceTerms adds none
toStructureTensorGMCCall(ns, channel_names) ==
    IF lacksCurrent(ns, channel_names) THEN [res |-> "KeyError", ret |-> None]
    ELSE [res |-> "ok", ret |-> toStructureTensorGMC(ns, channel_names)]

\* a vector that runs over the channels first and over the nodes within
\* each channel
toVecGMChannelMajor(ns, channel_names) ==
    [l \in 1 .. (NumNodes(ns) * Len(channel_names)) |->
        ns[(l - 1) % NumNodes(ns)].currents[
            channel_names[((l - 1) \div NumNodes(ns)) + 1]][1]]

\* CompartmentTree._toVecGM
toVecGM(ns, channel_names) ==
    [l \in 1 .. (NumNodes(ns) * Len(channel_names)) |->
        ns[(l - 1) \div Len(channel_names)].currents[
            channel_names[((l - 1) % Len(channel_names)) + 1]][1]]

\* a call of _toVecGM
toVecGMCall(ns, channel_names) ==
    IF lacksCurrent(ns, channel_names) THEN [res |-> "KeyError", ret |-> None]
    ELSE [res |-> "ok", ret |-> Computed(toVecGM(ns, channel_names))]

\* a call of _toStructureTensorGM: the assertion, then _toVecGM of
\* all_channel_names, then the tensor
toStructureTensorGMCall(ns, freqs, channel_names, all_channel_names) ==
    IF all_channel_names # NoneList /\ ~(Range(channel_names) \subseteq Range(all_channel_names))
    THEN [res |-> "AssertionError", ret |-> None]
    ELSE IF lacksCurrent(ns, IF all_channel_names = NoneList THEN channel_names
                             ELSE all_channel_names)
    THEN [res |-> "KeyError", ret |-> None]
    ELSE [res |-> "ok",
          ret |-> toStructureTensorGM(ns, freqs, channel_names,
                      IF all_channel_names = NoneList THEN channel_names
                      ELSE all_channel_names)]

\* the trees of SpecPack: the conductances of node i are i + 1 times those of
\* the root, so that no two slots of a vector hold the same number by chance
PackTrees ==
    {[i \in DOMAIN t |->
        [t[i] EXCEPT !.currents = [c \in DOMAIN t[i].currents |->
            <<RMul(t[i].currents[c][1], R(i + 1)), t[i].currents[c][2]>>]]] :
     t \in InitTrees(MaxPackNodes)}

\* the lists of names the helpers are called with
PackNames == {<<"L">>, <<"CaT">>, <<"L", "CaT">>, <<"SK", "L">>, <<"CaT", "SK", "L">>}

\* the vectors written to a tree: the tree's own and one of numbers that all differ
PackVectors(own) == {own, [l \in DOMAIN own |-> R(10 + l)]}

InitPack ==
    /\ nodes \in PackTrees
    /\ channel_storage = InitChannelStorage(nodes)
    /\ phys_tree = None
    /\ fit_data = IdleFitData
    /\ op = "init" /\ call = None /\ res = "ok" /\ ret = None

ToVecGMC(channel_names) ==
    /\ op = "init"
    /\ \E r \in {toVecGMCCall(nodes, channel_names)} :
        /\ op' = "_toVecGMC"
        /\ call' = [channel_names |-> channel_names]
        /\ res' = r.res
        /\ ret' = r.ret
        /\ UNCHANGED <<nodes, channel_storage, fit_data, phys_tree>>

ToStructureTensorGMC(channel_names) ==
    /\ op = "init"
    /\ \E r \in {toStructureTensorGMCCall(nodes, channel_names)} :
        /\ op' = "_toStructureTensorGMC"
        /\ call' = [channel_names |-> channel_names]
        /\ res' = r.res
        /\ ret' = r.ret
        /\ UNCHANGED <<nodes, channel_storage, fit_data, phys_tree>>

\* _toTreeGMC with a vector of the length of _toVecGMC on a tree whose nodes
\* have the channels
ToTreeGMC(channel_names) ==
    /\ op = "init"
    /\ ~lacksCurrent(nodes, channel_names)
    /\ \E g_vec \in PackVectors(Computed(toVecGMC(nodes, channel_names))) :
        /\ op' = "_toTreeGMC"
        /\ call' = [g_vec |-> g_vec, channel_names |-> channel_names]
        /\ res' = "ok"
        /\ ret' = None
        /\ nodes' = toTreeGMC(nodes, g_vec, channel_names)
        /\ UNCHANGED <<channel_storage, fit_data, phys_tree>>

ToVecGM(channel_names) ==
    /\ op = "init"
    /\ \E r \in {toVecGMCall(nodes, channel_names)} :
        /\ op' = "_toVecGM"
        /\ call' = [channel_names |-> channel_names]
        /\ res' = r.res
        /\ ret' = r.ret
        /\ UNCHANGED <<nodes, channel_storage, fit_data, phys_tree>>

ToStructureTensorGM(channel_names, all_channel_names) ==
    /\ op = "init"
    /\ \E r \in {toStructureTensorGMCall(nodes, <<0>>, channel_names, all_channel_names)} :
        /\ op' = "_toStructureTensorGM"
        /\ call' = [freqs |-> <<0>>, channel_names |-> channel_names,
                    all_channel_names |-> all_channel_names]
        /\ res' = r.res
        /\ ret' = r.ret
        /\ UNCHANGED <<nodes, channel_storage, fit_data, phys_tree>>

\* _toTreeGM with a vector of the length of _toVecGM
ToTreeGM(channel_names) ==
    /\ op = "init"
    /\ ~lacksCurrent(nodes, channel_names)
    /\ \E g_vec \in PackVectors(Computed(toVecGM(nodes, channel_names))) :
       \E r \in {toTreeGM(nodes, g_vec, channel_names)} :
        /\ op' = "_toTreeGM"
        /\ call' = [g_vec |-> g_vec, channel_names |-> channel_names]
        /\ res' = r.res
        /\ ret' = None
        /\ nodes' = r.nodes
        /\ UNCHANGED <<channel_storage, fit_data, phys_tree>>

NextPack ==
    \/ \E channel_names \in PackNames : ToVecGMC(channel_names)
    \/ \E channel_names \in PackNames : ToStructureTensorGMC(channel_names)
    \/ \E channel_names \in PackNames : ToTreeGMC(channel_names)
    \/ \E channel_names \in PackNames : ToVecGM(channel_names)
    \/ \E channel_names \in PackNames, all_channel_names \in PackNames \cup {NoneList} :
          ToStructureTensorGM(channel_names, all_channel_names)
    \/ \E channel_names \in PackNames : ToTreeGM(channel_names)

SpecPack == InitPack /\ [][NextPack]_vars

-----------------------------------------------------------------------------
(* Specification SpecEEq: the operating potentials of the nodes, set by     *)
(* setEEq, read by getEEq and used by the fits that are given no e_eqs      *)

MaxEEqNodes == 2

\* the operating potentials handed to setEEq: -75 at location 0, 10 more at
\* each further location, or -75 everywhere
EEqArrays(N) == {[l \in 0 .. (N - 1) |-> -75 + 10 * l], [l \in 0 .. (N - 1) |-> -75]}

\* the trees as setEEq with an array leaves them
EEqTrees ==
    UNION {{setEEqArray(t, x) : x \in EEqArrays(NumNodes(t))} : t \in BatchTrees(MaxEEqNodes)}

InitEEq ==
    /\ nodes \in EEqTrees
    /\ channel_storage = InitChannelStorage(nodes)
    /\ phys_tree = None
    /\ fit_data = IdleFitData
    /\ op = "init" /\ call = None /\ res = "ok" /\ ret = None

\* setEEq with an array, one entry per location
SetEEqArray(e_eq) ==
    /\ op = "init"
    /\ op' = "setEEq"
    /\ call' = [e_eq |-> e_eq, array |-> TRUE]
    /\ res' = "ok"
    /\ ret' = None
    /\ nodes' = setEEqArray(nodes, e_eq)
    /\ UNCHANGED <<channel_storage, fit_data, phys_tree>>

\* setEEq with a float
SetEEqFloat(e_eq) ==
    /\ op = "init"
    /\ op' = "setEEq"
    /\ call' = [e_eq |-> e_eq, array |-> FALSE]
    /\ res' = "ok"
    /\ ret' = None
    /\ nodes' = setEEq(nodes, e_eq)
    /\ UNCHANGED <<channel_storage, fit_data, phys_tree>>

\* getEEq, by itself or after a setEEq (whose call it then records)
GetEEq ==
    /\ op \in {"init", "setEEq"}
    /\ op' = "getEEq"
    /\ call' = [after |-> op, of |-> call]
    /\ res' = "ok"
    /\ ret' = getEEq(nodes)
    /\ UNCHANGED <<nodes, channel_storage, fit_data, phys_tree>>

NextEEq ==
    \/ \E e_eq \in EEqArrays(NumNodes(nodes)) \cup
                   {[l \in Indices(nodes) |-> -65 - 10 * l]} : SetEEqArray(e_eq)
    \/ \E e_eq \in {-75, -65} : SetEEqFloat(e_eq)
    \/ GetEEq
    \/ /\ op = "init"
       /\ \E z_mat_arg \in {<<OwnImpedance(nodes, channel_storage)>>,
                            <<ZMat(NumNodes(nodes), 1)>>},
             e_eqs \in {NoEEqs, EEqs(<<-65>>)} : ComputeGMC(z_mat_arg, e_eqs)
    \/ \E e_eqs \in {NoEEqs, EEqs(<<-65>>)}, channel_names \in {<<"L">>, <<"CaT">>},
          return_matrices \in BOOLEAN :
          ComputeGM(<<<<ZMat(NumNodes(nodes), 1)>>>>, e_eqs, <<0>>, NoWeights, channel_names,
                    NoneList, return_matrices)
    \/ \E e_eqs \in {NoEEqs, EEqs(<<-65>>)}, channel_name \in {"L", "CaT"},
          return_matrices \in BOOLEAN :
          ComputeGMSingleChan(<<<<ZMat(NumNodes(nodes), 1)>>>>, e_eqs, <<0>>, NoWeights,
                              channel_name, return_matrices)

SpecEEq == InitEEq /\ [][NextEEq]_vars


-----------------------------------------------------------------------------
(* The properties of the fit accumulator, checked under Spec *)

\* the family a store names does not match the one fit_data records: a
\* channel-conductance store while an ion is recorded, an ion store while
\* channel names are recorded, other channel names, another ion
FamilyMismatch(fd, kwargs) ==
    \/ kwargs.channel_names # NoneList /\ fd.ion # ""
    \/ kwargs.channel_names = NoneList /\ kwargs.ion # None /\ Len(fd.channel_names) > 0
    \/ /\ kwargs.channel_names # NoneList
       /\ Len(fd.channel_names) > 0
       /\ fd.channel_names # kwargs.channel_names
    \/ /\ kwargs.channel_names = NoneList
       /\ kwargs.ion # None
       /\ fd.ion # ""
       /\ fd.ion # kwargs.ion

\* C1: a store whose parameter family does not match the family recorded in
\* fit_data ends with an exception and appends nothing: fit_data is as it was
C1_MismatchedStoreRejected ==
    [][(/\ op' = "_fitResAction"
        /\ call'.action = "store"
        /\ FamilyMismatch(fit_data, call'.kwargs))
       => (res' \in {"IOError", "NameError"} /\ fit_data' = fit_data)]_vars

\* a store of an ion other than the recorded one has been rejected
C1_Witness ==
    /\ op = "_fitResAction"
    /\ call.action = "store"
    /\ Len(fit_data.mats_feature) > 0
    /\ FamilyMismatch(fit_data, call.kwargs)
    /\ call.kwargs.ion # None
    /\ fit_data.ion # ""
    /\ res = "NameError"

\* the number of parameter families fit_data is tagged with
FamiliesActive(fd) ==
    (IF Len(fd.channel_names) > 0 THEN 1 ELSE 0)
    + (IF fd.ion # "" THEN 1 ELSE 0)
    + (IF fd.c THEN 1 ELSE 0)

\* C2: in every reachable state at most one parameter family is active in
\* fit_data: at most one of channel_names non-empty, ion non-empty, c True
C2_AtMostOneFamily == FamiliesActive(fit_data) <= 1

\* C3: whenever fit_data holds stored triples a family tag is fixed
\* (channel_names non-empty, or ion non-empty, or c True)
C3_StoredTriplesHaveFamily ==
    Len(fit_data.mats_feature) > 0 => FamiliesActive(fit_data) >= 1

\* C4: after runFit has returned normally from its solve, and after
\* resetFitData, fit_data is idle: no arrays, no channel names, ion '' and c False
C4_IdleAfterRunFitOrReset ==
    (op = "resetFitData" \/ (op = "runFit" /\ res = "ok"))
       => /\ fit_data.mats_feature = <<>>
          /\ fit_data.vecs_target = <<>>
          /\ fit_data.weights_fit = <<>>
          /\ fit_data.channel_names = <<>>
          /\ fit_data.ion = ""
          /\ fit_data.c = FALSE

\* runFit has solved two stored leak-conductance triples (the conductance 3/2
\* is the joint solution of the two fit problems) and left fit_data idle
C4_Witness ==
    /\ op = "runFit"
    /\ res = "ok"
    /\ nodes[0].currents["L"][1] = Rat(3, 2)
    /\ fit_data = IdleFitData

\* C5: runFit on an empty accumulator raises nothing, warns, and leaves the
\* nodes and fit_data as they were
C5_RunFitEmptyIsNoOp ==
    [][(op' = "runFit" /\ Len(fit_data.mats_feature) = 0)
       => (res' = "warning" /\ nodes' = nodes /\ fit_data' = fit_data
           /\ channel_storage' = channel_storage)]_vars

\* runFit has warned on an empty accumulator, after a fit that changed the tree
C5_Witness ==
    /\ op = "runFit"
    /\ res = "warning"
    /\ Len(fit_data.mats_feature) = 0
    /\ nodes[0].currents["L"][1] = R(2)

\* the parameters of the family of a call, read back from the nodes in the
\* order of the solution vector
FitParams(ns, capacitance, kwargs) ==
    IF kwargs.channel_names # NoneList
    THEN [l \in 1 .. (NumNodes(ns) * Len(kwargs.channel_names)) |->
            ns[(l - 1) \div Len(kwargs.channel_names)].currents[
                kwargs.channel_names[((l - 1) % Len(kwargs.channel_names)) + 1]][1]]
    ELSE IF kwargs.ion # None
    THEN [l \in 1 .. NumNodes(ns) |-> ns[l - 1].concmechs[kwargs.ion].gamma]
    ELSE [l \in 1 .. NumNodes(ns) |-> ns[l - 1].ca]

\* C7: a call with action 'fit' that returns leaves in the tree the solution
\* of the feature matrix and target vector of that call alone, and leaves
\* fit_data, stored triples included, as it was
C7_FitUsesOnlyThisCall ==
    [][(op' = "_fitResAction" /\ call'.action = "fit")
       => /\ fit_data' = fit_data
          /\ res' = "ok" =>
                \A l \in DOMAIN FitParams(nodes', call'.capacitance, call'.kwargs) :
                    FitParams(nodes', call'.capacitance, call'.kwargs)[l]
                       = nnls(call'.mat_feature, call'.vec_target)[l]]_vars

\* a fit has returned while a triple with another solution was stored
C7_Witness ==
    /\ op = "_fitResAction"
    /\ call.action = "fit"
    /\ res = "ok"
    /\ call.kwargs.channel_names = <<"L">>
    /\ Len(fit_data.mats_feature) > 0
    /\ nnls(fit_data.mats_feature[1], fit_data.vecs_target[1])
          # nnls(call.mat_feature, call.vec_target)
    /\ nodes[0].currents["L"][1] = nnls(call.mat_feature, call.vec_target)[1]

-----------------------------------------------------------------------------
(* The property of the fit entry points, checked under SpecFit *)

FitEntryPoints == {"computeGChanFromImpedance", "computeGSingleChanFromImpedance",
                   "computeConcMech", "computeGChanFromTrace"}

\* C6: a fit call with action 'return' that returns hands back
\* (mat_feature, vec_target) and leaves every node, the channel storage and
\* fit_data as they were before the call
C6_ReturnMutatesNothing ==
    [][(op' \in FitEntryPoints /\ call'.action = "return" /\ res' = "ok")
       => (nodes' = nodes /\ channel_storage' = channel_storage
           /\ fit_data' = fit_data)]_vars

-----------------------------------------------------------------------------
(* The property of the weights, checked under SpecIdem *)

\* C8: the triple stored twice at half the weight and the triple stored once
\* at the full weight give, after runFit, the same fitted parameters, alone
\* and alongside other triples of the family
C8_HalfWeightTwiceIsFullWeightOnce ==
    (op = "storeRunFit" /\ res = "ok") => ret = nodes

-----------------------------------------------------------------------------
(* The properties of the matrices, checked under SpecMat *)

\* the tree with another g_c on its root
WithRootGc(ns, g_c) == [ns EXCEPT ![0].g_c = g_c]

\* C9: the g_c stored on the root has no effect on what calcConductanceMatrix
\* and calcSystemMatrix return: the same call on the tree whose root has
\* g_c = 0 returns the same matrix
C9_RootGcHasNoEffect ==
    /\ (op = "calcConductanceMatrix" /\ res = "ok")
          => ret = calcConductanceMatrix(WithRootGc(nodes, Zero), call.indexing).ret
    /\ (op = "calcSystemMatrix" /\ res = "ok")
          => ret = calcSystemMatrix(WithRootGc(nodes, Zero), channel_storage, call.freqs,
                                    call.no_freq_dim, call.channel_names, call.with_ca,
                                    call.use_conc, call.indexing, call.add_L).ret

\* the node that row and column a of a matrix stand for
NodeAt(ns, indexing, a) ==
    IF indexing = "locs" THEN CHOOSE n \in DOMAIN ns : ns[n].loc_ind = a ELSE a

\* the nodes m and n are a parent and its child
ParentChild(ns, m, n) == ns[m].parent_node = n \/ ns[n].parent_node = m

\* C10: for a tree whose g_c are all non-negative the matrix that
\* calcConductanceMatrix returns, in 'tree' and in 'locs' indexing, is
\* symmetric, its off-diagonal entries are <= 0, and those of two nodes that
\* are not parent and child are 0
C10_ConductanceMatrixLaplacian ==
    (/\ op = "calcConductanceMatrix"
     /\ res = "ok"
     /\ \A i \in DOMAIN nodes : RLeq(Zero, nodes[i].g_c))
       => \A a, b \in DOMAIN ret :
             /\ ret[a][b] = ret[b][a]
             /\ a # b => RLeq(ret[a][b], Zero)
             /\ (a # b /\ ~ParentChild(nodes, NodeAt(nodes, call.indexing, a),
                                       NodeAt(nodes, call.indexing, b)))
                   => ret[a][b] = Zero

\* the conductance matrix of a chain of three nodes whose locations are not
\* in tree order has been returned in 'locs' indexing
C10_Witness ==
    /\ op = "calcConductanceMatrix"
    /\ res = "ok"
    /\ call.indexing = "locs"
    /\ NumNodes(nodes) = 3
    /\ nodes[0].loc_ind # 0
    /\ nodes[2].parent_node = 1
    /\ \A i \in DOMAIN nodes : RLeq(Zero, nodes[i].g_c)
    /\ RLt(Zero, nodes[2].g_c)
    /\ RLt(ret[nodes[2].loc_ind][nodes[1].loc_ind], Zero)

\* the loc_ind of the nodes are a bijection onto 0 .. N-1
LocIndsBijective(ns) == {ns[i].loc_ind : i \in DOMAIN ns} = Indices(ns)

\* C11: when the loc_ind are a bijection onto 0 .. N-1, _permuteToLocs undoes
\* _permuteToTree and _permuteToTree undoes _permuteToLocs, on a vector, a
\* matrix and a stack of matrices of the size of the tree
C11_PermutationsAreInverses ==
    (/\ op \in {"_permuteToTree", "_permuteToLocs"}
     /\ LocIndsBijective(nodes)
     /\ Side(call.mat, call.ndim) = NumNodes(nodes))
       => /\ res = "ok"
          /\ op = "_permuteToTree" => permuteToLocsNd(nodes, ret, call.ndim).ret = call.mat
          /\ op = "_permuteToLocs" => permuteToTreeNd(nodes, ret, call.ndim).ret = call.mat

\* a stack of matrices has been permuted to the tree order of three nodes
\* whose locations are rotated, and it is not what it was
C11_Witness ==
    /\ op = "_permuteToTree"
    /\ res = "ok"
    /\ call.ndim = 3
    /\ NumNodes(nodes) = 3
    /\ Side(call.mat, call.ndim) = 3
    /\ nodes[0].loc_ind = 1
    /\ ret # call.mat

\* C12: calcSystemMatrix, calcConductanceMatrix and calcImpedanceMatrix called
\* with an indexing other than 'tree' and 'locs' raise an error and return
\* no matrix
C12_InvalidIndexingRejected ==
    (/\ op \in {"calcSystemMatrix", "calcConductanceMatrix", "calcImpedanceMatrix"}
     /\ call.indexing \notin {"tree", "locs"})
       => res = "ValueError"

\* calcImpedanceMatrix has been called with the indexing 'nodes' and raised
C12_Witness ==
    /\ op = "calcImpedanceMatrix"
    /\ call.indexing = "nodes"
    /\ res = "ValueError"

\* the product of two matrices of the size of the tree
MatMul(a, b) ==
    [i \in DOMAIN a |-> [j \in DOMAIN a |->
        RSum([k \in 1 .. Cardinality(DOMAIN a) |-> RMul(a[i][k - 1], b[k - 1][j])])]]

\* the identity matrix of the size of m
Eye(m) == [i \in DOMAIN m |-> [j \in DOMAIN m |-> IF i = j THEN One ELSE Zero]]

\* what calcSystemMatrix returns for the arguments of the last call, which was
\* a call of calcImpedanceMatrix
SystemMatrixOfCall ==
    calcSystemMatrix(nodes, channel_storage, call.freqs, call.no_freq_dim,
                     call.channel_names, TRUE, call.use_conc, call.indexing, TRUE).ret

\* C18: the matrix calcImpedanceMatrix returns, multiplied with the one
\* calcSystemMatrix returns for the same freqs, channel_names, use_conc and
\* indexing, is the identity at every frequency
C18_SystemTimesImpedanceIsIdentity ==
    (op = "calcImpedanceMatrix" /\ res = "ok")
       => IF call.no_freq_dim
          THEN MatMul(SystemMatrixOfCall, ret) = Eye(ret)
          ELSE \A f \in DOMAIN ret :
                  MatMul(SystemMatrixOfCall[f], ret[f]) = Eye(ret[f])

\* the impedance matrices of a tree of three nodes have been returned at two
\* frequencies, in 'locs' indexing, and they differ
C18_Witness ==
    /\ op = "calcImpedanceMatrix"
    /\ res = "ok"
    /\ NumNodes(nodes) = 3
    /\ ~call.no_freq_dim
    /\ call.indexing = "locs"
    /\ nodes[0].loc_ind # 0
    /\ ret[2][0][1] # Zero
    /\ ret[2] # ret[1]

-----------------------------------------------------------------------------
(* The properties of the batch fits, checked under SpecBatch *)

BatchOps == {"computeGMC", "computeGM", "computeGMSingleChan"}
GMOps == {"computeGM", "computeGMSingleChan"}

\* the number of operating potentials of a call: one when e_eqs is omitted
NumConditions(c) == IF c.e_eqs.given THEN Len(c.e_eqs.e) ELSE 1

\* an impedance matrix of the call has not the side of the tree, or the call
\* has not one impedance matrix and one weight per operating potential
ShapeMismatch(ns, c) ==
    \/ \E k \in DOMAIN c.z_mat_arg : Side(c.z_mat_arg[k], c.ndim) # NumNodes(ns)
    \/ Len(c.z_mat_arg) # NumConditions(c)
    \/ c.w_e_eqs.form \in {"array", "list", "tuple"} /\ Len(c.w_e_eqs.w) # NumConditions(c)

\* C13: a fit operation whose impedance matrices have not the side of the
\* tree, or that gets a number of matrices or of weights other than the
\* number of operating potentials, ends with an error
C13_ShapeMismatchFailsFast ==
    (op \in BatchOps /\ ShapeMismatch(nodes, call)) => res # "ok"

\* C14: after an operation that wrote fitted conductances, the g_c of every
\* node and the conductance of every current is not negative
C14_FittedConductancesNonNegative ==
    (op \in BatchOps /\ res = "ok" /\ ~call.return_matrices)
       => \A i \in DOMAIN nodes :
             /\ RLeq(Zero, nodes[i].g_c)
             /\ \A c \in DOMAIN nodes[i].currents : RLeq(Zero, nodes[i].currents[c][1])

\* the tree whose currents of the channels channel_names have conductance zero
WithoutConductances(ns, channel_names) ==
    [i \in DOMAIN ns |->
        [ns[i] EXCEPT !.currents =
            [c \in DOMAIN @ |-> IF c \in Range(channel_names) THEN <<Zero, @[c][2]>> ELSE @[c]]]]

\* the call c of computeGM or computeGMSingleChan (o) on the tree t
BatchCall(t, o, c) ==
    IF o = "computeGM"
    THEN computeGM(t, c.z_mat_arg, c.e_eqs, c.freqs, c.w_e_eqs, c.channel_names,
                   c.other_channel_names, c.return_matrices)
    ELSE computeGMSingleChan(t, c.z_mat_arg, c.e_eqs, c.freqs, c.w_e_eqs,
                             c.channel_names[1], c.return_matrices)

\* C15: the target vector I - Z*Y_known of computeGM and computeGMSingleChan
\* has no contribution of a channel that is being fit: it is the target
\* vector of the same call on the tree whose fit channels have conductance zero
C15_KnownMatrixExcludesFitChannels ==
    [][(op' \in GMOps /\ res' = "ok" /\ call'.return_matrices)
          => ret'[2] = BatchCall([Tree EXCEPT !.nodes =
                                     WithoutConductances(@,
                                         GMChannelNames(channel_storage,
                                                        call'.channel_names))],
                                 op', call').ret[2]]_vars

\* the weight the caller gave for a condition: 1 when w_e_eqs is omitted
CallerWeight(c, k) == IF c.w_e_eqs.form = "None" THEN One ELSE c.w_e_eqs.w[k]

\* the call c with a weight of 1 for every condition, given as a list
WithUnitWeights(c) ==
    [c EXCEPT !.w_e_eqs = [form |-> "list", w |-> [k \in 1 .. NumConditions(c) |-> One]]]

\* the arrays u = (mat_feature, vec_target) of the call c with unit weights,
\* the rows of condition k multiplied by the square root of its weight
WeightedBySqrt(u, c) ==
    <<[r \in DOMAIN u[1] |->
          [l \in DOMAIN u[1][r] |->
              RTimes(u[1][r][l],
                     Sqrt(CallerWeight(c, ((r - 1) \div (Len(u[2]) \div NumConditions(c))) + 1)))]],
      [r \in DOMAIN u[2] |->
          RTimes(u[2][r],
                 Sqrt(CallerWeight(c, ((r - 1) \div (Len(u[2]) \div NumConditions(c))) + 1)))]>>

\* C16: computeGM and computeGMSingleChan called with one weight per
\* condition (or none, or a single float for a single condition) stack the
\* arrays of the conditions, those of condition i multiplied by the square
\* root of the weight the caller gave for it, 1 when w_e_eqs is omitted
C16_WeightedBySqrtOfCallerWeight ==
    [][(/\ op' \in GMOps
        /\ call'.return_matrices
        /\ ~ShapeMismatch(nodes, call')
        /\ call'.w_e_eqs.form = "float" => NumConditions(call') = 1
        /\ BatchCall(Tree, op', WithUnitWeights(call')).res = "ok")
          => /\ res' = "ok"
             /\ ret' = WeightedBySqrt(BatchCall(Tree, op', WithUnitWeights(call')).ret,
                                      call')]_vars

-----------------------------------------------------------------------------
(* Claim of SpecNewton *)

\* C19: the Newton iteration _sn_ always ends: an invocation is followed by
\* another one only while the update is not below atol and n_iter is at most
\* 100, so n_iter never exceeds 101 and at most 102 Newton steps are made;
\* when _sn_ returns, it returns the iterate of its last step, converged or
\* not (it ends without a return only when np.linalg.solve raises)
C19_NewtonTerminates ==
    /\ [](op = "_sn_" => call.c_prev = call.n_iter /\ call.n_iter + 1 <= 102)
    /\ [](op = "_sn_" /\ res = "ok" => ret = call.n_iter + 1 /\ ret <= 102)
    /\ [](op = "_sn_" /\ res = "running" => call.update # "small" /\ call.n_iter <= 101)
    /\ <>[](op = "_sn_" => res # "running")

\* the iteration ran to the cap without converging and returned c_102
C19_Witness ==
    /\ op = "_sn_" /\ res = "ok"
    /\ call.update = "large"
    /\ call.n_iter = 101
    /\ ret = 102

-----------------------------------------------------------------------------
(* Claim of SpecLeak *)

\* C20: fitLeakCurrent with tau_m_target > 0 on nodes with c_m > 0 and
\* non-negative channel conductances ends without an error and leaves at
\* every node a finite, strictly positive leak conductance and a finite leak
\* reversal; a node whose requested conductance c_m/(tau_m_target*1e-3) is
\* below its summed open channel conductance makes it warn and gets the leak
\* conductance of the clamped time scale
C20_LeakFitNeverFails ==
    (op = "fitLeakCurrent" /\ call.tau_m_target > 0)
        => /\ res \in {"ok", "warning"}
           /\ \A i \in DOMAIN nodes :
                /\ "L" \in DOMAIN nodes[i].currents
                /\ Finite(nodes[i].currents["L"][1])
                /\ RLt(Zero, nodes[i].currents["L"][1])
                /\ Finite(nodes[i].currents["L"][2])
                /\ timeScaleUnreachable(nodes[i], call.e_eq_target, call.tau_m_target)
                     => /\ res = "warning"
                        /\ nodes[i].currents["L"][1] = R(20)

-----------------------------------------------------------------------------
(* Claims of SpecNode *)

\* C21: getITot called on a node right after fitEL of that node, at v = e_eq
\* and over all the node's currents, returns 0, whatever the expansion points
\* of the node's channels are
C21_FitELZeroesTotalCurrent ==
    [][(op = "fitEL" /\ op' = "getITot" /\ call'.index = call.index)
          => ret' = Zero]_vars

\* the node keeps everything but the entries of channel c in currents and
\* expansion_points
SameButChannel(after, before, c) ==
    /\ [after EXCEPT !.currents = before.currents,
                     !.expansion_points = before.expansion_points] = before
    /\ \A d \in (DOMAIN before.currents) \ {c} :
            d \in DOMAIN after.currents /\ after.currents[d] = before.currents[d]
    /\ \A d \in (DOMAIN before.expansion_points) \ {c} :
            d \in DOMAIN after.expansion_points
                /\ after.expansion_points[d] = before.expansion_points[d]

\* C22: the currents of every node contain the key 'L' in every state;
\* addCurrent('L') changes nothing, and addCurrent of another name leaves
\* [0, e_rev] under that name with the expansion point None and the rest of
\* the node as it was
C22_LeakAlwaysPresent ==
    /\ [](\A i \in DOMAIN nodes : "L" \in DOMAIN nodes[i].currents)
    /\ [][op' = "addCurrent" =>
            IF call'.channel_name = "L"
            THEN nodes' = nodes /\ channel_storage' = channel_storage
            ELSE /\ DOMAIN nodes' = DOMAIN nodes
                 /\ \A i \in (DOMAIN nodes) \ {call'.index} : nodes'[i] = nodes[i]
                 /\ call'.channel_name \in channel_storage'
                 /\ \E after \in {nodes'[call'.index]} :
                      /\ call'.channel_name \in DOMAIN after.currents
                      /\ after.currents[call'.channel_name]
                            = <<Zero, E_REV_DICT(call'.channel_name)>>
                      /\ after.expansion_points[call'.channel_name] = NoneStateVars
                      /\ SameButChannel(after, nodes[call'.index], call'.channel_name)]_vars

\* addCurrent has registered a channel at one node of a tree of two nodes
\* whose other node does not have it but has had another channel added
C22_Witness ==
    /\ op = "addCurrent"
    /\ call.channel_name = "SK"
    /\ NumNodes(nodes) = 2
    /\ nodes[call.index].currents["SK"] = <<Zero, -85>>
    /\ "SK" \notin DOMAIN nodes[1 - call.index].currents
    /\ "CaT" \in DOMAIN nodes[1 - call.index].currents

-----------------------------------------------------------------------------
(* Claim of SpecPhys *)

\* C23: when setVEP, setConcEP, setPhysiology, setLeakCurrent, addCurrent,
\* addConcMech, fitLeakCurrent or asPassiveMembrane of a PhysTree has changed
\* a node, the tree has no computational root and its treetype is 'original'
\* once the call is over
C23_ChangedTreeHasNoComputationalTree ==
    [][(op = "init" /\ op' # "init" /\ nodes' # nodes)
          => /\ phys_tree'.computational_root = None
             /\ phys_tree'.treetype = "original"]_vars

-----------------------------------------------------------------------------
(* Claim of SpecConv *)

\* the input of node k as the eigenmode of node k sees it
ModeInput(k, c, t) == RDiv(call.inputs[k][c][t], RMul(nodes[k].ca, R(1000)))

\* the eigenvalue of node k of a tree without coupling
ModeAlpha(k) == RDiv(RDiv(nodes[k].currents["L"][1], nodes[k].ca), R(-1000))

\* C24: _calcConvolution starts the state of each eigenmode at the steady
\* state of the first input sample, -input[0]/alpha, advances it with
\* state[k+1] = p0*state[k] + p1*input[k+1] + p2*input[k], and gives an output
\* that is constant in time for an input that is constant in time
C24_ConvolutionOfConstantInputIsConstant ==
    op = "_calcConvolution" =>
        \A k \in DOMAIN nodes : \A c \in DOMAIN call.inputs[k] :
            \E out \in {ret[k][k][c]} : \E p \in {propagators(ModeAlpha(k), call.dt)} :
                /\ out[1] = RDiv(RNeg(ModeInput(k, c, 1)), ModeAlpha(k))
                /\ \A t \in 1 .. (Len(out) - 1) :
                    out[t + 1] = RAdd(RMul(p.p0, out[t]),
                                      RAdd(RMul(p.p1, ModeInput(k, c, t + 1)),
                                           RMul(p.p2, ModeInput(k, c, t))))
                /\ (\A t \in DOMAIN out : call.inputs[k][c][t] = call.inputs[k][c][1])
                        => \A t \in DOMAIN out : out[t] = out[1]

\* _calcConvolution has run over three samples of a constant non-zero input on
\* a tree of two nodes with different capacitances
C24_Witness ==
    /\ op = "_calcConvolution"
    /\ NumNodes(nodes) = 2
    /\ nodes[0].ca # nodes[1].ca
    /\ call.inputs[1][1] = <<R(2), R(2), R(2)>>
    /\ ret[1][1][1] = <<R(2), R(2), R(2)>>
    /\ ret[0][1][1] = <<Zero, Zero, Zero>>

-----------------------------------------------------------------------------
(* Claims of SpecMat, second part *)

\* C25: calcSystemMatrix, calcImpedanceMatrix and calcConductanceMatrix leave
\* the tree as it was: every node's currents, expansion_points, e_eq, g_c and
\* ca, and the tree's channel_storage, are the same after the call as before
\* it, whatever channel_names is
C25_MatricesLeaveTreeUnchanged ==
    [][op' \in {"calcSystemMatrix", "calcImpedanceMatrix", "calcConductanceMatrix"}
          => /\ channel_storage' = channel_storage
             /\ \A i \in DOMAIN nodes :
                    /\ nodes'[i].currents = nodes[i].currents
                    /\ nodes'[i].expansion_points = nodes[i].expansion_points
                    /\ nodes'[i].e_eq = nodes[i].e_eq
                    /\ nodes'[i].g_c = nodes[i].g_c
                    /\ nodes'[i].ca = nodes[i].ca]_vars

-----------------------------------------------------------------------------
(* Claim of SpecFit, second part *)

\* the channels whose conductances the call fits
FitChannelsOfCall(c) ==
    IF "channel_name" \in DOMAIN c THEN {c.channel_name}
    ELSE IF c.channel_names = NoneList THEN Range(c.p_open_channels)
    ELSE Range(c.channel_names)

\* what a fit of the channels of the set fitted is to leave of a node: all
\* but the conductances of those channels (and the expansion points)
FrameOfFit(node, fitted) ==
    [node EXCEPT
        !.currents = [c \in DOMAIN @ |-> IF c \in fitted THEN <<Zero, @[c][2]>> ELSE @[c]],
        !.expansion_points = <<>>]

\* C27: a channel-conductance fit with action 'fit' that returns normally
\* changes only the conductances of the channels it fits: every node's g_c,
\* ca, e_eq, reversal potentials, concentration gains and the conductances of
\* the channels that are only listed in all_channel_names are as before
C27_FitChangesOnlyFitChannels ==
    [][(/\ op' \in {"computeGChanFromImpedance", "computeGSingleChanFromImpedance",
                    "computeGChanFromTrace"}
        /\ call'.action = "fit"
        /\ res' = "ok")
          => \A i \in DOMAIN nodes :
                FrameOfFit(nodes'[i], FitChannelsOfCall(call'))
                    = FrameOfFit(nodes[i], FitChannelsOfCall(call'))]_vars

-----------------------------------------------------------------------------
(* Claims of Spec, second part *)

\* the call names no family: no channel_names, no ion, capacitance False
NoFamily(c) == c.kwargs.channel_names = NoneList /\ c.kwargs.ion = None /\ ~c.capacitance

\* C29: a call of _fitResAction with action 'store', 'fit' or an undefined
\* action that ends with an exception leaves fit_data as it was; an undefined
\* action and a 'fit' that names no family do end with an exception
C29_RejectedRequestLeavesFitData ==
    [][op' = "_fitResAction"
          => /\ (call'.action \notin {"return"} /\ res' # "ok") => fit_data' = fit_data
             /\ call'.action \notin {"store", "fit", "return"} => res' = "IOError"
             /\ (call'.action = "fit" /\ NoFamily(call')) => res' = "IOError"]_vars

\* a store of other channel names than the recorded ones has been rejected
\* while one triple was stored
C29_Witness ==
    /\ op = "_fitResAction"
    /\ call.action = "store"
    /\ res = "IOError"
    /\ Len(fit_data.mats_feature) = 1
    /\ fit_data.channel_names = <<"L">>
    /\ call.kwargs.channel_names = <<"L", "CaT">>

-----------------------------------------------------------------------------
(* Claims of SpecPack *)

\* C26: for a list channel_names that contains 'L', the sum over k of
\* _toStructureTensorGMC(channel_names)[i,j,k] * _toVecGMC(channel_names)[k]
\* is entry (i,j) of calcSystemMatrix(freqs=0, channel_names, with_ca=False,
\* indexing='tree'), for all i and j
C26_StructureTensorIsSystemMatrix ==
    (op = "_toStructureTensorGMC" /\ res = "ok" /\ "L" \in Range(call.channel_names))
        => \A i, j \in DOMAIN nodes :
              RSum([k \in DOMAIN ret[i][j] |->
                      RMul(ret[i][j][k], toVecGMC(nodes, call.channel_names)[k])])
                = calcSystemMatrix(nodes, channel_storage, <<0>>, TRUE, call.channel_names,
                                   FALSE, FALSE, "tree", TRUE).ret[i][j]

RECURSIVE SlotsGMC(_, _, _)
\* what the slots of the GMC vector stand for, node by node from node i on:
\* the root gives one slot per name, every other node one for its g_c and
\* then one per name
SlotsGMC(ns, channel_names, i) ==
    IF i = NumNodes(ns) THEN <<>>
    ELSE (IF IsRoot(ns[i]) THEN <<>> ELSE <<[node |-> i, item |-> "g_c"]>>)
            \o [c \in DOMAIN channel_names |-> [node |-> i, item |-> channel_names[c]]]
            \o SlotsGMC(ns, channel_names, i + 1)

\* the conductance of the tree that a slot stands for
SlotValue(ns, slot) ==
    IF slot.item = "g_c" THEN ns[slot.node].g_c ELSE ns[slot.node].currents[slot.item][1]

\* the tree ns but for the conductances that the slots stand for
WithoutSlots(ns, slots) ==
    [i \in DOMAIN ns |->
        [ns[i] EXCEPT
            !.g_c = IF [node |-> i, item |-> "g_c"] \in Range(slots) THEN Zero ELSE @,
            !.currents = [c \in DOMAIN @ |->
                IF [node |-> i, item |-> c] \in Range(slots) THEN <<Zero, @[c][2]>>
                ELSE @[c]]]]

\* the entries of column l of a GMC structure tensor for the slot it stands for
TensorColumnGMC(ns, channel_names, slot, j, k) ==
    IF slot.item = "g_c"
    THEN (IF j = k /\ j \in {slot.node, ns[slot.node].parent_node} THEN One
          ELSE IF {j, k} = {slot.node, ns[slot.node].parent_node} THEN <<-1, 1>>
          ELSE Zero)
    ELSE IF j = slot.node /\ k = slot.node
    THEN calcMembraneConductanceTerms(ns[j], <<0>>, {"L"} \cup Range(channel_names))[
             slot.item][1]
    ELSE Zero

\* the names whose slots a GM structure tensor has
TensorNames(c) == IF c.all_channel_names = NoneList THEN c.channel_names ELSE c.all_channel_names

\* C28: _toVecGMC(names) has N*len(names) + (N-1) slots, _toTreeGMC of that
\* vector leaves every node as it was, and slot k stands for the same g_c or
\* channel conductance of the same node in _toVecGMC, in _toTreeGMC and in the
\* last axis of _toStructureTensorGMC; slot
\* node_position*len(names) + channel_position does so in _toVecGM, _toTreeGM
\* and _toStructureTensorGM
C28_PackingRoundTripAndAlignment ==
    /\ [](/\ (op = "_toVecGMC" /\ res = "ok")
                => /\ Len(ret) = NumNodes(nodes) * Len(call.channel_names)
                                    + (NumNodes(nodes) - 1)
                   /\ \A l \in DOMAIN ret :
                        ret[l] = SlotValue(nodes, SlotsGMC(nodes, call.channel_names, 0)[l])
          /\ (op = "_toStructureTensorGMC" /\ res = "ok")
                => \A j, k \in DOMAIN nodes : \A l \in DOMAIN ret[j][k] :
                      ret[j][k][l]
                        = TensorColumnGMC(nodes, call.channel_names,
                                          SlotsGMC(nodes, call.channel_names, 0)[l], j, k)
          /\ (op = "_toVecGM" /\ res = "ok")
                => /\ Len(ret) = NumNodes(nodes) * Len(call.channel_names)
                   /\ \A node_position \in DOMAIN nodes :
                      \A channel_position \in 0 .. (Len(call.channel_names) - 1) :
                        ret[node_position * Len(call.channel_names) + channel_position + 1]
                          = nodes[node_position].currents[
                                call.channel_names[channel_position + 1]][1]
          /\ (op = "_toStructureTensorGM" /\ res = "ok")
                => \A j, k, node_position \in DOMAIN nodes :
                   \A channel_position \in 0 .. (Len(TensorNames(call)) - 1) :
                        ret[1][j][k][node_position * Len(TensorNames(call))
                                        + channel_position + 1]
                          = IF /\ j = node_position /\ k = node_position
                               /\ TensorNames(call)[channel_position + 1]
                                      \in Range(call.channel_names)
                            THEN calcMembraneConductanceTerms(nodes[j], <<0>>,
                                     Range(call.channel_names))[
                                     TensorNames(call)[channel_position + 1]][1]
                            ELSE Zero)
    /\ [][/\ op' = "_toTreeGMC"
                => /\ \A l \in DOMAIN call'.g_vec :
                        SlotValue(nodes', SlotsGMC(nodes, call'.channel_names, 0)[l])
                            = call'.g_vec[l]
                   /\ WithoutSlots(nodes', SlotsGMC(nodes, call'.channel_names, 0))
                        = WithoutSlots(nodes, SlotsGMC(nodes, call'.channel_names, 0))
                   /\ call'.g_vec = toVecGMC(nodes, call'.channel_names) => nodes' = nodes
          /\ (op' = "_toTreeGM" /\ res' = "ok")
                => /\ \A node_position \in DOMAIN nodes :
                      \A channel_position \in 0 .. (Len(call'.channel_names) - 1) :
                        nodes'[node_position].currents[
                            call'.channel_names[channel_position + 1]][1]
                          = call'.g_vec[node_position * Len(call'.channel_names)
                                            + channel_position + 1]
                   /\ call'.g_vec = toVecGM(nodes, call'.channel_names) => nodes' = nodes]_vars

\* _toTreeGMC has written a vector of numbers that all differ into a chain of
\* three nodes for the names CaT, SK and L: the g_c of the last node is slot 8
C28_Witness ==
    /\ op = "_toTreeGMC"
    /\ NumNodes(nodes) = 3
    /\ nodes[2].parent_node = 1
    /\ call.channel_names = <<"CaT", "SK", "L">>
    /\ call.g_vec[8] = R(18)
    /\ nodes[2].g_c = R(18)
    /\ nodes[2].currents["L"][1] = R(21)
    /\ nodes[0].currents["CaT"][1] = R(11)

-----------------------------------------------------------------------------
(* Claim of SpecEEq *)

\* C30: computeGMC, computeGM and computeGMSingleChan called without e_eqs
\* leave the e_eq of every node as it was, whatever bijection loc_ind is and
\* whether or not the e_eq of the nodes are equal; and getEEq after setEEq(x)
\* with an array x gives for each node the entry of x at the node's loc_ind
C30_OmittedEEqsKeepOperatingPotentials ==
    /\ [](op = "getEEq" /\ call.after = "setEEq" /\ call.of.array
            => \A i \in DOMAIN nodes : ret[i] = call.of.e_eq[nodes[i].loc_ind])
    /\ [][(/\ op' \in {"computeGMC", "computeGM", "computeGMSingleChan"}
           /\ ~call'.e_eqs.given
           /\ res' = "ok"
           /\ LocIndsBijective(nodes))
             => \A i \in DOMAIN nodes : nodes'[i].e_eq = nodes[i].e_eq]_vars
====
